---- MODULE Spec2Model ----
(***************************************************************************)
(* Temporal Signal Aggregation Engine (src/lib/temporal/aggregate.ts), the *)
(* API routes that serve it and the signal stores (src/app/api), and the   *)
(* useAlerts hook (src/lib/alerts/useAlerts.ts).                           *)
(*                                                                         *)
(* Representation.                                                         *)
(*  - An instant is an integer number of milliseconds (the value of        *)
(*    Date.getTime()) counted from a reference instant.  An ISO-8601       *)
(*    string produced by toISOString() carries exactly millisecond         *)
(*    precision, so it is represented by the millisecond count it denotes; *)
(*    the only lossy conversion, new Date(x) for a non-integral number x   *)
(*    (TimeClip truncates toward zero), is modelled by ScaleDuration.      *)
(*  - A string that the code compares, sorts or concatenates (a signal id, *)
(*    a description) is the sequence of its UTF-16 code units.             *)
(*  - A reference to a signal object is its index in the signal list.      *)
(*  - Where aliasing matters (the route handlers sharing the mock store)   *)
(*    objects live in a heap: a sequence of cells addressed by position.   *)
(*    A property that is read or written through a reference is a field    *)
(*    holding an address; allocation appends a cell.                       *)
(***************************************************************************)
EXTENDS Integers, Sequences, FiniteSets, TLC

VARIABLES
    signals,          \* TemporalSignal[] handed to the entry points
    horizonDays,      \* second argument of computeOutreachWindows
    now,              \* the value new Date() yields inside the call
    buckets,          \* local `buckets` of computeOutreachWindows after its scoring loop
    windows,          \* local `windows` of computeOutreachWindows before cleanup
    mergedWindows,    \* value returned by computeOutreachWindows
    overlaps,         \* value returned by findSignalOverlaps
    inputWindows,     \* first argument of applyScenarioMode
    scenarioType,     \* second argument of applyScenarioMode
    scenarioWindows,  \* value returned by applyScenarioMode
    pc,               \* "ready" before the call, the entry point's name after it
    heap,             \* the objects of the server process, by address
    requests,         \* the requests being served: parameters, position, references
    exchange,         \* the signals API request in hand and the response made for it
    storage,          \* localStorage: the item under STORAGE_KEY
    tabs              \* the mounted useAlerts instances: hook state, queued updates, effects

vars == <<signals, horizonDays, now, buckets, windows, mergedWindows, overlaps,
          inputWindows, scenarioType, scenarioWindows, pc, heap, requests,
          exchange, storage, tabs>>

-----------------------------------------------------------------------------
(* Bounds of the model *)

MaxSignals == 2
MaxHorizonDays == 2
MaxOverlapSignals == 4
MaxScenarioWindows == 2
MaxRequests == 2

-----------------------------------------------------------------------------
(* Program constants *)

HourMs == 3600000
HoursPerDay == 24
DefaultHorizonDays == 14
MergeThresholdHours == 2
MaxDescriptions == 3

DayMs == HoursPerDay * HourMs

Undefined == "undefined"

ImpactLevels == {"low", "medium", "high"}
ConfidenceLevels == {"low", "medium", "high"}
WindowTypes == {"safer", "caution", "highDisruption"}

IMPACT_WEIGHTS == [low |-> 1, medium |-> 2, high |-> 3]

WINDOW_THRESHOLDS == [safer |-> 1, caution |-> 2]

-----------------------------------------------------------------------------
(* Sequence and string helpers standing for the JavaScript built-ins *)

Min2(a, b) == IF a <= b THEN a ELSE b
Max2(a, b) == IF a >= b THEN a ELSE b

\* Array.prototype.slice(0, n)
SliceFront(s, n) == SubSeq(s, 1, Min2(n, Len(s)))

\* Insertion-ordered Set: add x at the end unless already present.
SetAdd(s, x) == IF \E i \in DOMAIN s : s[i] = x THEN s ELSE Append(s, x)

RECURSIVE SetAddAll(_, _)
SetAddAll(s, xs) ==
    IF xs = <<>> THEN s ELSE SetAddAll(SetAdd(s, Head(xs)), Tail(xs))

\* String.prototype.toLowerCase on code units (ASCII letters).
ToLowerCase(str) ==
    [i \in DOMAIN str |-> IF str[i] \in 65..90 THEN str[i] + 32 ELSE str[i]]

\* Array.prototype.join(sep) on an array of strings.
RECURSIVE Join(_, _)
Join(strs, sep) ==
    IF strs = <<>> THEN <<>>
    ELSE IF Len(strs) = 1 THEN strs[1]
    ELSE strs[1] \o sep \o Join(Tail(strs), sep)

\* a < b for strings compared by UTF-16 code units (the default sort order).
RECURSIVE StrLess(_, _)
StrLess(a, b) ==
    IF b = <<>> THEN FALSE
    ELSE IF a = <<>> THEN TRUE
    ELSE IF Head(a) # Head(b) THEN Head(a) < Head(b)
    ELSE StrLess(Tail(a), Tail(b))

\* [x, y].sort() with the default comparator.
SortPair(x, y) == IF StrLess(y, x) THEN <<y, x>> ELSE <<x, y>>

\* The relational operator > of JavaScript on values that may be undefined:
\* undefined converts to NaN and every comparison with NaN is false.
JsGreater(a, b) == a # Undefined /\ b # Undefined /\ a > b

\* IMPACT_WEIGHTS[key] for an arbitrary property key.
ImpactWeightOf(key) ==
    IF key \in DOMAIN IMPACT_WEIGHTS THEN IMPACT_WEIGHTS[key] ELSE Undefined

-----------------------------------------------------------------------------
(* aggregateConfidence, generateWindowExplanation, generateSuggestedApproach *)

\* Code units of "; " (the separator of signalDescriptions.join).
DescriptionSeparator == <<59, 32>>

\* Faulty variant: an empty driver set reported with full confidence.
aggregateConfidence_EmptyHigh(driverSignals) ==
    IF \E i \in DOMAIN driverSignals : driverSignals[i].confidenceLevel = "low" THEN "low"
    ELSE IF \E i \in DOMAIN driverSignals : driverSignals[i].confidenceLevel = "medium"
    THEN "medium"
    ELSE "high"

aggregateConfidence(driverSignals) ==
    IF Len(driverSignals) = 0 THEN "low"
    ELSE LET hasLow == \E i \in DOMAIN driverSignals :
                           driverSignals[i].confidenceLevel = "low"
             hasMedium == \E i \in DOMAIN driverSignals :
                           driverSignals[i].confidenceLevel = "medium"
         IN  IF hasLow THEN "low" ELSE IF hasMedium THEN "medium" ELSE "high"

\* A generated text is the template it instantiates and the text spliced in.
NeutralExplanation ==
    [template |-> "No significant signals affecting this time period. Standard outreach conditions expected.",
     detail |-> <<>>]

LowerDescription(s) == ToLowerCase(s.description)

generateWindowExplanation(windowType, driverSignals) ==
    IF Len(driverSignals) = 0 THEN NeutralExplanation
    ELSE LET signalDescriptions ==
                 SliceFront([i \in DOMAIN driverSignals |-> LowerDescription(driverSignals[i])],
                            MaxDescriptions)
             joined == Join(signalDescriptions, DescriptionSeparator)
         IN  CASE windowType = "safer" ->
                    [template |-> "Low-impact signals (%s). Generally good conditions for outreach with minor considerations.",
                     detail |-> joined]
               [] windowType = "caution" ->
                    [template |-> "Moderate activity expected: %s. Outreach is feasible but may require adjusted timing or approach.",
                     detail |-> joined]
               [] windowType = "highDisruption" ->
                    [template |-> "Multiple or high-impact signals: %s. Consider alternative timing or proactive coordination before this period.",
                     detail |-> joined]

generateSuggestedApproach(windowType) ==
    CASE windowType = "safer" ->
           [template |-> "Standard outreach approach. Good time for relationship-building, needs assessment, and service connections.",
            detail |-> <<>>]
      [] windowType = "caution" ->
           [template |-> "Consider morning or late afternoon timing. Coordinate with partner organizations. Have alternative locations ready for conversations.",
            detail |-> <<>>]
      [] windowType = "highDisruption" ->
           [template |-> "Focus on proactive outreach 24-48 hours before this period. Share information about what's coming. Connect people with services they may need.",
            detail |-> <<>>]

-----------------------------------------------------------------------------
(* computeOutreachWindows: hourly buckets *)

\* Faulty variant: closed-interval overlap test.
IsActive_Closed(signal, bucketStart, bucketEnd) ==
    signal.start <= bucketEnd /\ signal.end >= bucketStart

\* The filter predicate of the scoring loop.
IsActive(signal, bucketStart, bucketEnd) ==
    signal.start < bucketEnd /\ signal.end > bucketStart

\* activeSignals.reduce((sum, signal) => sum + IMPACT_WEIGHTS[signal.impactLevel], 0)
RECURSIVE SumWeights(_, _)
SumWeights(sigs, refs) ==
    IF refs = <<>> THEN 0
    ELSE IMPACT_WEIGHTS[sigs[Head(refs)].impactLevel] + SumWeights(sigs, Tail(refs))

\* Faulty variant: the loop body runs once before the bound is tested.
BucketCount_AtLeastOne(nowT, endDate) ==
    IF endDate <= nowT THEN 1 ELSE (endDate - nowT + HourMs - 1) \div HourMs

\* Number of iterations of  for (time = now; time < endDate; time += bucketDurationMs).
BucketCount(nowT, endDate) ==
    IF endDate <= nowT THEN 0 ELSE (endDate - nowT + HourMs - 1) \div HourMs

\* One iteration of the scoring loop, for the bucket starting at `time`.
MakeBucket(sigs, time) ==
    LET bucketStart == time
        bucketEnd == time + HourMs
        Active(i) == IsActive(sigs[i], bucketStart, bucketEnd)
        activeSignals == SelectSeq([i \in 1..Len(sigs) |-> i], Active)
    IN  [start |-> bucketStart,
         end |-> bucketEnd,
         score |-> SumWeights(sigs, activeSignals),
         signals |-> activeSignals]

ComputeBuckets(sigs, days, nowT) ==
    LET endDate == nowT + days * DayMs
    IN  [k \in 1..BucketCount(nowT, endDate) |-> MakeBucket(sigs, nowT + (k - 1) * HourMs)]

\* Faulty variant: strict comparisons against the thresholds.
getWindowType_Strict(score) ==
    IF score < WINDOW_THRESHOLDS.safer THEN "safer"
    ELSE IF score < WINDOW_THRESHOLDS.caution THEN "caution"
    ELSE "highDisruption"

getWindowType(score) ==
    IF score <= WINDOW_THRESHOLDS.safer THEN "safer"
    ELSE IF score <= WINDOW_THRESHOLDS.caution THEN "caution"
    ELSE "highDisruption"

-----------------------------------------------------------------------------
(* computeOutreachWindows: merging contiguous buckets of the same type *)

NoWindow == [type |-> "none"]

\* `window-${n}`; a scenario prefix is prepended by applyScenarioMode.
WindowId(n) == [prefix |-> <<>>, base |-> "window-", num |-> n]

StartWindow(bucket) ==
    [type |-> getWindowType(bucket.score),
     startBucket |-> bucket,
     endBucket |-> bucket,
     signals |-> bucket.signals,
     maxScore |-> bucket.score]

ExtendWindow(cur, bucket) ==
    [cur EXCEPT !.endBucket = bucket,
                !.signals = SetAddAll(cur.signals, bucket.signals),
                !.maxScore = Max2(cur.maxScore, bucket.score)]

\* The OutreachWindow pushed when the accumulating window is closed.
CloseWindow(sigs, cur, count) ==
    LET driverSignals == [i \in DOMAIN cur.signals |-> sigs[cur.signals[i]]]
    IN  [id |-> WindowId(count + 1),
         windowType |-> cur.type,
         start |-> cur.startBucket.start,
         end |-> cur.endBucket.end,
         driverSignalIds |-> [i \in DOMAIN driverSignals |-> driverSignals[i].id],
         plainLanguageWhy |-> generateWindowExplanation(cur.type, driverSignals),
         confidenceSummary |-> aggregateConfidence(driverSignals),
         suggestedApproach |-> generateSuggestedApproach(cur.type),
         impactScore |-> cur.maxScore]

\* One iteration of  for (const bucket of buckets)  on the pair
\* (windows, currentWindow).
MergeStep(sigs, st, bucket) ==
    LET bucketType == getWindowType(bucket.score)
    IN  IF st.currentWindow = NoWindow
        THEN [st EXCEPT !.currentWindow = StartWindow(bucket)]
        ELSE IF st.currentWindow.type = bucketType
        THEN [st EXCEPT !.currentWindow = ExtendWindow(st.currentWindow, bucket)]
        ELSE [windows |-> Append(st.windows,
                                 CloseWindow(sigs, st.currentWindow, Len(st.windows))),
              currentWindow |-> StartWindow(bucket)]

\* for (const bucket of buckets): the iterations for buckets lo..hi in order,
\* started from st (the range is halved only to keep the evaluation shallow).
RECURSIVE MergeLoop(_, _, _, _, _)
MergeLoop(sigs, bs, lo, hi, st) ==
    IF lo > hi THEN st
    ELSE IF lo = hi THEN MergeStep(sigs, st, bs[lo])
    ELSE LET mid == (lo + hi) \div 2
             left == MergeLoop(sigs, bs, lo, mid, st)
         IN  \* the test only makes the evaluator finish `left` before going on
             IF Len(left.windows) >= 0
             THEN MergeLoop(sigs, bs, mid + 1, hi, left)
             ELSE left

\* The merge loop followed by "Close final window".
MergeBuckets(sigs, bs) ==
    LET st == MergeLoop(sigs, bs, 1, Len(bs),
                        [windows |-> <<>>, currentWindow |-> NoWindow])
    IN  IF st.currentWindow # NoWindow
        THEN Append(st.windows, CloseWindow(sigs, st.currentWindow, Len(st.windows)))
        ELSE st.windows

-----------------------------------------------------------------------------
(* computeOutreachWindows: merging very short windows into the previous one *)

\* Faulty variant: only windows shorter than one hour count as short.
IsShort_OneHour(window) == window.end - window.start < HourMs

IsShort(window) ==
    \* durationHours < 2, with durationHours = durationMs / (60 * 60 * 1000)
    window.end - window.start < MergeThresholdHours * HourMs

\* Faulty variant: the window types are compared by their own order.
ShouldEscalate_Ranked(window, prev) ==
    LET rank(type) == CASE type = "safer" -> 1 [] type = "caution" -> 2
                        [] type = "highDisruption" -> 3
    IN  rank(window.windowType) > rank(prev.windowType)

\* The escalation test of the cleanup pass.
ShouldEscalate(window, prev) ==
    JsGreater(ImpactWeightOf(window.windowType), ImpactWeightOf(prev.windowType))

\* Faulty variant: the previous window's end is not moved.
AbsorbInto_KeepEnd(prev, window) ==
    [prev EXCEPT !.driverSignalIds =
                     SetAddAll(SetAddAll(<<>>, prev.driverSignalIds),
                               window.driverSignalIds)]

\* Faulty variant: the driver ids of the absorbed window are dropped.
AbsorbInto_KeepIds(prev, window) ==
    LET moved == [prev EXCEPT !.end = window.end]
    IN  IF ShouldEscalate(window, prev)
        THEN [moved EXCEPT !.windowType = window.windowType,
                           !.plainLanguageWhy = window.plainLanguageWhy,
                           !.suggestedApproach = window.suggestedApproach]
        ELSE moved

AbsorbInto(prev, window) ==
    LET moved == [prev EXCEPT !.end = window.end]
        typed == IF ShouldEscalate(window, prev)
                 THEN [moved EXCEPT !.windowType = window.windowType,
                                    !.plainLanguageWhy = window.plainLanguageWhy,
                                    !.suggestedApproach = window.suggestedApproach]
                 ELSE moved
    IN  [typed EXCEPT !.driverSignalIds =
                          SetAddAll(SetAddAll(<<>>, prev.driverSignalIds),
                                    window.driverSignalIds)]

CleanupStep(merged, window) ==
    IF IsShort(window) /\ Len(merged) > 0
    THEN [merged EXCEPT ![Len(merged)] = AbsorbInto(merged[Len(merged)], window)]
    ELSE Append(merged, window)

RECURSIVE CleanupLoop(_, _, _)
CleanupLoop(ws, i, merged) ==
    IF i > Len(ws) THEN merged
    ELSE CleanupLoop(ws, i + 1, CleanupStep(merged, ws[i]))

MergeShortWindows(ws) == CleanupLoop(ws, 1, <<>>)

computeOutreachWindows(sigs, days, nowT) ==
    MergeShortWindows(MergeBuckets(sigs, ComputeBuckets(sigs, days, nowT)))

-----------------------------------------------------------------------------
(* findSignalOverlaps *)

\* Code units of "-" and of "overlap-".
Dash == <<45>>
OverlapIdPrefix == <<111, 118, 101, 114, 108, 97, 112, 45>>

\* Faulty variant: the impact filter lets every signal through.
IsImpactful_All(signal) == signal.impactLevel \in ImpactLevels

\* Faulty variant: the filter keeps the signals that are not high.
IsImpactful_NotHigh(signal) == signal.impactLevel # "high"

\* The filter predicate of impactfulSignals.
IsImpactful(signal) == signal.impactLevel = "medium" \/ signal.impactLevel = "high"

\* if (aStart < bEnd && aEnd > bStart)
RangesOverlap(a, b) == a.start < b.end /\ a.end > b.start

\* [a.id, b.id].sort().join("-")
PairKey(a, b) == Join(SortPair(a.id, b.id), Dash)

\* Faulty variant: the union of the two ranges instead of their intersection.
OverlapRange_Union(a, b) ==
    [start |-> Min2(a.start, b.start), end |-> Max2(a.end, b.end)]

\* overlapStart and overlapEnd
OverlapRange(a, b) ==
    [start |-> Max2(a.start, b.start), end |-> Min2(a.end, b.end)]

\* Faulty variant: "high" only above 5.
CombinedImpact_Above(a, b) ==
    LET combinedScore == IMPACT_WEIGHTS[a.impactLevel] + IMPACT_WEIGHTS[b.impactLevel]
    IN  IF combinedScore > 5 THEN "high"
        ELSE IF combinedScore >= 3 THEN "medium"
        ELSE "low"

CombinedImpact(a, b) ==
    LET combinedScore == IMPACT_WEIGHTS[a.impactLevel] + IMPACT_WEIGHTS[b.impactLevel]
    IN  IF combinedScore >= 5 THEN "high"
        ELSE IF combinedScore >= 3 THEN "medium"
        ELSE "low"

\* The record pushed for the pair (a, b).
MakeOverlap(a, b) ==
    [id |-> OverlapIdPrefix \o a.id \o Dash \o b.id,
     start |-> OverlapRange(a, b).start,
     end |-> OverlapRange(a, b).end,
     signalIds |-> <<a.id, b.id>>,
     whyItMatters |->
        [template |-> "Two significant signals overlap: \"%s\" and \"%s\". When multiple disruptive factors coincide, the combined effect on outreach effectiveness is greater than each alone. Consider proactive coordination.",
         detail |-> <<a.description, b.description>>],
     combinedImpact |-> CombinedImpact(a, b)]

\* The body of the inner loop on the pair (overlaps, processedPairs).
OverlapStep(st, a, b) ==
    IF RangesOverlap(a, b)
    THEN LET pairKey == PairKey(a, b)
         IN  IF pairKey \in st.processedPairs THEN st
             ELSE [overlaps |-> Append(st.overlaps, MakeOverlap(a, b)),
                   processedPairs |-> st.processedPairs \cup {pairKey}]
    ELSE st

\* for (j = i + 1 ...) nested in for (i = 0 ...): the pairs from (i, j) on.
RECURSIVE OverlapLoop(_, _, _, _)
OverlapLoop(impactfulSignals, i, j, st) ==
    IF i > Len(impactfulSignals) THEN st
    ELSE IF j > Len(impactfulSignals) THEN OverlapLoop(impactfulSignals, i + 1, i + 2, st)
    ELSE OverlapLoop(impactfulSignals, i, j + 1,
                     OverlapStep(st, impactfulSignals[i], impactfulSignals[j]))

\* Insertion of x behind every element whose start is not later: what a stable
\* sort with the comparator a.start - b.start does with equal keys.
RECURSIVE InsertByStart(_, _)
InsertByStart(sorted, x) ==
    IF sorted = <<>> THEN <<x>>
    ELSE IF sorted[Len(sorted)].start - x.start <= 0 THEN Append(sorted, x)
    ELSE Append(InsertByStart(SubSeq(sorted, 1, Len(sorted) - 1), x), sorted[Len(sorted)])

RECURSIVE SortFrom(_, _, _)
SortFrom(list, i, sorted) ==
    IF i > Len(list) THEN sorted
    ELSE SortFrom(list, i + 1, InsertByStart(sorted, list[i]))

\* Faulty variant: the list is returned as scanned.
SortByStart_Unsorted(list) == list

\* overlaps.sort((a, b) => start(a) - start(b)); Array.prototype.sort is stable.
SortByStart(list) == SortFrom(list, 1, <<>>)

findSignalOverlaps(sigs) ==
    LET impactfulSignals == SelectSeq(sigs, IsImpactful)
        st == OverlapLoop(impactfulSignals, 1, 2,
                          [overlaps |-> <<>>, processedPairs |-> {}])
    IN  SortByStart(st.overlaps)


-----------------------------------------------------------------------------
(* applyScenarioMode *)

\* Faulty variant: every scenario compressed by 0.8.
compressionFactor_Same(tag) == [num |-> 8, den |-> 10]

\* Faulty variant: only the declared tags compress; any other tag leaves the
\* duration as it is.
compressionFactor_DeclaredOnly(tag) ==
    IF tag = "olympics" THEN [num |-> 7, den |-> 10]
    ELSE IF tag = "majorEvent" THEN [num |-> 8, den |-> 10]
    ELSE [num |-> 10, den |-> 10]

\* scenarioType === "olympics" ? 0.7 : 0.8, as a ratio of integers.
compressionFactor(tag) ==
    IF tag = "olympics" THEN [num |-> 7, den |-> 10] ELSE [num |-> 8, den |-> 10]

\* Faulty variant: the duration is divided by the factor instead of multiplied.
ScaleDuration_Stretch(duration, factor) ==
    factor.den * (duration \div factor.num)
        + (factor.den * (duration % factor.num)) \div factor.num

\* new Date(start.getTime() + duration * compressionFactor).getTime() - start.getTime().
\* The Date constructor drops the fraction of a millisecond of its argument;
\* with epoch timestamps of the current era the double-precision product and
\* sum land on the whole millisecond below the exact value, which is
\* floor(duration * num / den).  The quotient and the remainder of the
\* duration are scaled separately so that no intermediate value leaves the
\* 32-bit range.
ScaleDuration(duration, factor) ==
    factor.num * (duration \div factor.den)
        + (factor.num * (duration % factor.den)) \div factor.den

\* Faulty variant: the id is passed through.
ScenarioId_Same(id) == id

ScenarioId(id) == [id EXCEPT !.prefix = <<"scenario-">> \o @]

\* Code units of "scenario-" and of "window-".
ScenarioPrefix == <<115, 99, 101, 110, 97, 114, 105, 111, 45>>
WindowPrefix == <<119, 105, 110, 100, 111, 119, 45>>

\* String(n) for a non-negative integer, as code units.
RECURSIVE Decimal(_)
Decimal(n) == IF n < 10 THEN <<48 + n>> ELSE Decimal(n \div 10) \o <<48 + (n % 10)>>

\* The string an id is: each template literal spliced out.
RECURSIVE IdText(_)
IdText(id) ==
    IF id.prefix # <<>>
    THEN ScenarioPrefix \o IdText([id EXCEPT !.prefix = Tail(@)])
    ELSE WindowPrefix \o Decimal(id.num)

CompressSafer(window, factor) ==
    LET start == window.start
        end == window.end
        duration == end - start
        newEnd == start + ScaleDuration(duration, factor)
    IN  [window EXCEPT
            !.id = ScenarioId(window.id),
            !.end = newEnd,
            !.plainLanguageWhy =
                [template |-> "SPECULATIVE: %s During major events, available windows compress due to increased institutional activity.",
                 inner |-> window.plainLanguageWhy],
            !.suggestedApproach =
                [template |-> "SPECULATIVE: %s Consider pre-event outreach to maximize available time.",
                 inner |-> window.suggestedApproach]]

\* Faulty variant: the caution window is relabelled but keeps its type.
UpgradeCaution_KeepType(window) ==
    [window EXCEPT
        !.id = ScenarioId(window.id),
        !.plainLanguageWhy =
            [template |-> "SPECULATIVE: %s Major events typically increase impact of existing signals.",
             inner |-> window.plainLanguageWhy],
        !.suggestedApproach =
            [template |-> "SPECULATIVE: Focus resources on pre-event and post-event windows rather than during.",
             detail |-> <<>>]]

UpgradeCaution(window) ==
    [window EXCEPT
        !.id = ScenarioId(window.id),
        !.windowType = "highDisruption",
        !.plainLanguageWhy =
            [template |-> "SPECULATIVE: %s Major events typically increase impact of existing signals.",
             inner |-> window.plainLanguageWhy],
        !.suggestedApproach =
            [template |-> "SPECULATIVE: Focus resources on pre-event and post-event windows rather than during.",
             detail |-> <<>>]]

LabelOther(window) ==
    [window EXCEPT
        !.id = ScenarioId(window.id),
        !.plainLanguageWhy =
            [template |-> "SPECULATIVE: %s", inner |-> window.plainLanguageWhy]]

\* The callback of windows.map.
ScenarioWindow(window, tag) ==
    IF window.windowType = "safer" THEN CompressSafer(window, compressionFactor(tag))
    ELSE IF window.windowType = "caution" THEN UpgradeCaution(window)
    ELSE LabelOther(window)

applyScenarioMode(ws, tag) == [i \in DOMAIN ws |-> ScenarioWindow(ws[i], tag)]


-----------------------------------------------------------------------------
(* Inputs *)

\* Signal ids and descriptions, as code units: "b", "a-x", "a-x-a", "x-a", "c"
\* and "Aa", "Bb", "Cc", "Dd", "Ee".
SignalIds ==
    << <<98>>, <<97, 45, 120>>, <<97, 45, 120, 45, 97>>, <<120, 45, 97>>, <<99>> >>
SignalDescriptions ==
    << <<65, 97>>, <<66, 98>>, <<67, 99>>, <<68, 100>>, <<69, 101>> >>

MakeSignal(k, start, end, impact, confidence) ==
    [id |-> SignalIds[k], description |-> SignalDescriptions[k],
     start |-> start, end |-> end,
     impactLevel |-> impact, confidenceLevel |-> confidence]

HalfHourMs == HourMs \div 2

\* Time ranges offered to computeOutreachWindows, as offsets from the reference
\* instant: [-1h, +0.5h), [+1h, +2h), [+2h, +4.5h) and [+3h, +4h).
WindowRanges ==
    { <<0 - HourMs, HalfHourMs>>,
      <<HourMs, 2 * HourMs>>,
      <<2 * HourMs, 4 * HourMs + HalfHourMs>>,
      <<3 * HourMs, 4 * HourMs>> }

\* What is chosen for each signal of a list: a range, an impact, a confidence.
WindowSignalChoices == WindowRanges \X ImpactLevels \X ConfidenceLevels

\* The list built from one choice per position; the i-th signal carries the
\* i-th id and description.
WindowSignalList(choice) ==
    [i \in DOMAIN choice |->
        MakeSignal(i, choice[i][1][1], choice[i][1][2], choice[i][2], choice[i][3])]

\* Readings of the clock: on the hour grid of the signals, and half an hour off it.
NowChoices == {0, HalfHourMs}

Idle == <<>>

InitWindows ==
    /\ \E n \in 0..MaxSignals :
           \E choice \in [1..n -> WindowSignalChoices] :
               signals = WindowSignalList(choice)
    /\ now \in NowChoices
    /\ \/ horizonDays \in {0 - 1, 0, 1}
       \/ Len(signals) <= 1 /\ horizonDays \in 2..MaxHorizonDays
       \/ signals = <<>> /\ horizonDays = DefaultHorizonDays
    /\ buckets = Idle
    /\ windows = Idle
    /\ mergedWindows = Idle
    /\ overlaps = Idle
    /\ inputWindows = Idle
    /\ scenarioType = "none"
    /\ scenarioWindows = Idle
    /\ pc = "ready"
    /\ heap = <<>>
    /\ requests = <<>>
    /\ exchange = Idle
    /\ storage = Idle
    /\ tabs = Idle

-----------------------------------------------------------------------------
(* A call of computeOutreachWindows(signals, horizonDays) *)

CallComputeOutreachWindows ==
    /\ pc = "ready"
    /\ buckets' = ComputeBuckets(signals, horizonDays, now)
    /\ windows' = MergeBuckets(signals, buckets')
    /\ mergedWindows' = MergeShortWindows(windows')
    /\ pc' = "computeOutreachWindows"
    /\ UNCHANGED <<signals, horizonDays, now, overlaps,
                   inputWindows, scenarioType, scenarioWindows, heap, requests,
                   exchange, storage, tabs>>

NextWindows == CallComputeOutreachWindows

SpecWindows == InitWindows /\ [][NextWindows]_vars

-----------------------------------------------------------------------------
(* A call of findSignalOverlaps(signals) *)

\* Time ranges offered to findSignalOverlaps, in hours from the reference
\* instant: [24, 28), [26, 30), [28, 32) and [24, 32).
OverlapRanges ==
    { <<24 * HourMs, 28 * HourMs>>, <<26 * HourMs, 30 * HourMs>>,
      <<28 * HourMs, 32 * HourMs>>, <<24 * HourMs, 32 * HourMs>> }

OverlapSignalChoices == OverlapRanges \X ImpactLevels

OverlapSignalList(choice) ==
    [i \in DOMAIN choice |->
        MakeSignal(i, choice[i][1][1], choice[i][1][2], choice[i][2], "high")]

InitOverlaps ==
    /\ \E n \in 0..MaxOverlapSignals :
           \E choice \in [1..n -> OverlapSignalChoices] :
               signals = OverlapSignalList(choice)
    /\ now = 0
    /\ horizonDays = DefaultHorizonDays
    /\ buckets = Idle
    /\ windows = Idle
    /\ mergedWindows = Idle
    /\ overlaps = Idle
    /\ inputWindows = Idle
    /\ scenarioType = "none"
    /\ scenarioWindows = Idle
    /\ pc = "ready"
    /\ heap = <<>>
    /\ requests = <<>>
    /\ exchange = Idle
    /\ storage = Idle
    /\ tabs = Idle

CallFindSignalOverlaps ==
    /\ pc = "ready"
    /\ overlaps' = findSignalOverlaps(signals)
    /\ pc' = "findSignalOverlaps"
    /\ UNCHANGED <<signals, horizonDays, now, buckets, windows, mergedWindows,
                   inputWindows, scenarioType, scenarioWindows, heap, requests,
                   exchange, storage, tabs>>

NextOverlaps == CallFindSignalOverlaps

SpecOverlaps == InitOverlaps /\ [][NextOverlaps]_vars


-----------------------------------------------------------------------------
(* A call of applyScenarioMode(inputWindows, scenarioType) *)

\* Durations of the windows offered to applyScenarioMode: none, one
\* millisecond, one hour and ten hours.
ScenarioDurations == {0, 1, HourMs, 10 * HourMs}

\* The scenario tags: the two declared ones and one the type does not declare.
ScenarioTags == {"olympics", "majorEvent", "unknown"}

\* Score of a window of the given type with no more than one driver.
TypicalScore(type) ==
    CASE type = "safer" -> 0 [] type = "caution" -> 2 [] type = "highDisruption" -> 3

\* An OutreachWindow as computeOutreachWindows builds it, without drivers.
MakeWindow(n, type, start, end) ==
    [id |-> WindowId(n),
     windowType |-> type,
     start |-> start,
     end |-> end,
     driverSignalIds |-> <<>>,
     plainLanguageWhy |-> generateWindowExplanation(type, <<>>),
     confidenceSummary |-> aggregateConfidence(<<>>),
     suggestedApproach |-> generateSuggestedApproach(type),
     impactScore |-> TypicalScore(type)]

\* What is chosen for each window of a list: a type, a start, a duration.
ScenarioWindowChoices == WindowTypes \X NowChoices \X ScenarioDurations

ScenarioWindowList(choice) ==
    [i \in DOMAIN choice |->
        MakeWindow(i, choice[i][1], choice[i][2], choice[i][2] + choice[i][3])]

InitScenario ==
    /\ signals = <<>>
    /\ now = 0
    /\ horizonDays = DefaultHorizonDays
    /\ buckets = Idle
    /\ windows = Idle
    /\ mergedWindows = Idle
    /\ overlaps = Idle
    /\ \E n \in 0..MaxScenarioWindows :
           \E choice \in [1..n -> ScenarioWindowChoices] :
               inputWindows = ScenarioWindowList(choice)
    /\ scenarioType \in ScenarioTags
    /\ scenarioWindows = Idle
    /\ pc = "ready"
    /\ heap = <<>>
    /\ requests = <<>>
    /\ exchange = Idle
    /\ storage = Idle
    /\ tabs = Idle

CallApplyScenarioMode ==
    /\ pc = "ready"
    /\ scenarioWindows' = applyScenarioMode(inputWindows, scenarioType)
    /\ pc' = "applyScenarioMode"
    /\ UNCHANGED <<signals, horizonDays, now, buckets, windows, mergedWindows,
                   overlaps, inputWindows, scenarioType, heap, requests,
                   exchange, storage, tabs>>

NextScenario == CallApplyScenarioMode

SpecScenario == InitScenario /\ [][NextScenario]_vars


-----------------------------------------------------------------------------
(* The entry points on heap objects *)

\* An address is a pair <<region, position>>: region 0 holds the objects made
\* when the mock module is loaded, region r the objects made while request r
\* is served.  The order in which requests allocate does not show in addresses.
StoreRegion == 0

\* Address of the array bound to mockTemporalSignals.
MockTemporalSignals == <<StoreRegion, 1>>

NoRef == <<StoreRegion, 0>>

\* The object at address a.
Cell(h, a) == h[a[1]][a[2]]

\* The heap with the object at address a replaced.
Store(h, a, cell) == [h EXCEPT ![a[1]][a[2]] = cell]

\* The heap with new objects appended to region r; the k-th of them gets
\* position Len(h[r]) + k.
Alloc(h, r, cells) == [h EXCEPT ![r] = @ \o cells]

\* The store region after the mock module is loaded with the signals `sigs`:
\* the array at position 1, then for the i-th signal its timeRange object at
\* position 2i and the signal object at position 2i + 1.
LoadStore(sigs) ==
    [a \in 1..(2 * Len(sigs) + 1) |->
        IF a = 1 THEN [i \in 1..Len(sigs) |-> <<StoreRegion, 2 * i + 1>>]
        ELSE IF a % 2 = 0
        THEN [start |-> sigs[a \div 2].start, end |-> sigs[a \div 2].end]
        ELSE LET signal == sigs[(a - 1) \div 2]
             IN  [id |-> signal.id,
                  description |-> signal.description,
                  timeRange |-> <<StoreRegion, a - 1>>,
                  impactLevel |-> signal.impactLevel,
                  confidenceLevel |-> signal.confidenceLevel]]

\* What a reader of the signal object at address a sees.
SignalValue(h, a) ==
    [id |-> Cell(h, a).id,
     description |-> Cell(h, a).description,
     start |-> Cell(h, Cell(h, a).timeRange).start,
     end |-> Cell(h, Cell(h, a).timeRange).end,
     impactLevel |-> Cell(h, a).impactLevel,
     confidenceLevel |-> Cell(h, a).confidenceLevel]

\* What a reader of the array of signal objects at address ref sees.
SignalListValue(h, ref) ==
    [i \in DOMAIN Cell(h, ref) |-> SignalValue(h, Cell(h, ref)[i])]

\* What a reader of the window object at address a sees.
WindowValue(h, a) ==
    [id |-> Cell(h, a).id,
     windowType |-> Cell(h, a).windowType,
     start |-> Cell(h, Cell(h, a).timeRange).start,
     end |-> Cell(h, Cell(h, a).timeRange).end,
     driverSignalIds |-> Cell(h, Cell(h, a).driverSignalIds),
     plainLanguageWhy |-> Cell(h, a).plainLanguageWhy,
     confidenceSummary |-> Cell(h, a).confidenceSummary,
     suggestedApproach |-> Cell(h, a).suggestedApproach,
     impactScore |-> Cell(h, a).impactScore]

\* What a reader of the array of window objects at address ref sees.
WindowListValue(h, ref) ==
    [i \in DOMAIN Cell(h, ref) |-> WindowValue(h, Cell(h, ref)[i])]

\* The filter predicate of the route handlers.
InHorizon(signal, nowT, horizonEnd) ==
    signal.start <= horizonEnd /\ signal.end >= nowT

\* Faulty variant: the store array itself is cut down to the horizon and handed on.
FilterSignals_InPlace(h, r, nowT, days) ==
    LET Kept(a) == InHorizon(SignalValue(h, a), nowT, nowT + days * DayMs)
    IN  [heap |-> Store(h, MockTemporalSignals,
                        SelectSeq(Cell(h, MockTemporalSignals), Kept)),
         ref |-> MockTemporalSignals]

\* mockTemporalSignals.filter(...): a new array of the same signal objects.
FilterSignals(h, r, nowT, days) ==
    LET Kept(a) == InHorizon(SignalValue(h, a), nowT, nowT + days * DayMs)
    IN  [heap |-> Alloc(h, r, <<SelectSeq(Cell(h, MockTemporalSignals), Kept)>>),
         ref |-> <<r, Len(h[r]) + 1>>]

\* windows.push({...}): the timeRange object, the driverSignalIds array and the
\* window object are new.
AllocWindow(h, r, w) ==
    [heap |-> Alloc(h, r,
                    << [start |-> w.start, end |-> w.end],
                       w.driverSignalIds,
                       [id |-> w.id,
                        windowType |-> w.windowType,
                        timeRange |-> <<r, Len(h[r]) + 1>>,
                        driverSignalIds |-> <<r, Len(h[r]) + 2>>,
                        plainLanguageWhy |-> w.plainLanguageWhy,
                        confidenceSummary |-> w.confidenceSummary,
                        suggestedApproach |-> w.suggestedApproach,
                        impactScore |-> w.impactScore] >>),
     ref |-> <<r, Len(h[r]) + 3>>]

RECURSIVE AllocWindows(_, _, _, _, _)
AllocWindows(h, r, ws, i, refs) ==
    IF i > Len(ws) THEN [heap |-> h, refs |-> refs]
    ELSE LET one == AllocWindow(h, r, ws[i])
         IN  AllocWindows(one.heap, r, ws, i + 1, Append(refs, one.ref))

\* The assignments through `prev` of the cleanup pass.
HeapAbsorbInto(h, r, prev, window) ==
    LET range == Cell(h, prev).timeRange
        h1 == Store(h, range,
                    [Cell(h, range) EXCEPT
                        !.end = Cell(h, Cell(h, window).timeRange).end])
        h2 == IF ShouldEscalate(Cell(h1, window), Cell(h1, prev))
              THEN Store(h1, prev,
                         [Cell(h1, prev) EXCEPT
                             !.windowType = Cell(h1, window).windowType,
                             !.plainLanguageWhy = Cell(h1, window).plainLanguageWhy,
                             !.suggestedApproach = Cell(h1, window).suggestedApproach])
              ELSE h1
        ids == SetAddAll(SetAddAll(<<>>, Cell(h2, Cell(h2, prev).driverSignalIds)),
                         Cell(h2, Cell(h2, window).driverSignalIds))
        h3 == Alloc(h2, r, <<ids>>)
    IN  Store(h3, prev, [Cell(h3, prev) EXCEPT !.driverSignalIds = <<r, Len(h3[r])>>])

\* One iteration of the cleanup pass on (heap, mergedWindows).
HeapCleanupStep(st, r, window) ==
    IF IsShort(Cell(st.heap, Cell(st.heap, window).timeRange)) /\ Len(st.merged) > 0
    THEN [st EXCEPT !.heap = HeapAbsorbInto(st.heap, r, st.merged[Len(st.merged)], window)]
    ELSE [st EXCEPT !.merged = Append(st.merged, window)]

RECURSIVE HeapCleanupLoop(_, _, _, _)
HeapCleanupLoop(refs, r, i, st) ==
    IF i > Len(refs) THEN st
    ELSE HeapCleanupLoop(refs, r, i + 1, HeapCleanupStep(st, r, refs[i]))

\* computeOutreachWindows(signals, horizonDays) called for request r with the
\* clock reading nowT: the new heap and the address of the returned array.
HeapComputeOutreachWindows(h, r, signalsRef, days, nowT) ==
    LET sigs == SignalListValue(h, signalsRef)
        pushed == AllocWindows(h, r,
                               MergeBuckets(sigs, ComputeBuckets(sigs, days, nowT)),
                               1, <<>>)
        cleaned == HeapCleanupLoop(pushed.refs, r, 1,
                                   [heap |-> pushed.heap, merged |-> <<>>])
    IN  [heap |-> Alloc(cleaned.heap, r, <<cleaned.merged>>),
         ref |-> <<r, Len(cleaned.heap[r]) + 1>>]

\* findSignalOverlaps(signals): the returned array with its records, which
\* nothing else refers to, is one new object.
HeapFindSignalOverlaps(h, r, signalsRef) ==
    [heap |-> Alloc(h, r, <<findSignalOverlaps(SignalListValue(h, signalsRef))>>),
     ref |-> <<r, Len(h[r]) + 1>>]

\* Faulty variant: the input window is updated in place and returned.
HeapScenarioWindow_InPlace(h, r, w, tag) ==
    LET out == ScenarioWindow(WindowValue(h, w), tag)
        range == Cell(h, w).timeRange
        h1 == Store(h, range, [Cell(h, range) EXCEPT !.end = out.end])
    IN  [heap |-> Store(h1, w,
                        [Cell(h1, w) EXCEPT
                            !.id = out.id,
                            !.windowType = out.windowType,
                            !.plainLanguageWhy = out.plainLanguageWhy,
                            !.suggestedApproach = out.suggestedApproach]),
         ref |-> w]

\* The callback of windows.map: { ...window, ... } copies the properties of the
\* input window, references included, into a new object; only the safer
\* branch makes a new timeRange object.
HeapScenarioWindow(h, r, w, tag) ==
    LET window == Cell(h, w)
        out == ScenarioWindow(WindowValue(h, w), tag)
        copy == [window EXCEPT !.id = out.id,
                               !.windowType = out.windowType,
                               !.plainLanguageWhy = out.plainLanguageWhy,
                               !.suggestedApproach = out.suggestedApproach]
    IN  IF window.windowType = "safer"
        THEN [heap |-> Alloc(h, r,
                             << [start |-> Cell(h, window.timeRange).start,
                                 end |-> out.end],
                                [copy EXCEPT !.timeRange = <<r, Len(h[r]) + 1>>] >>),
              ref |-> <<r, Len(h[r]) + 2>>]
        ELSE [heap |-> Alloc(h, r, <<copy>>), ref |-> <<r, Len(h[r]) + 1>>]

RECURSIVE HeapScenarioLoop(_, _, _, _, _, _)
HeapScenarioLoop(h, r, refs, tag, i, out) ==
    IF i > Len(refs) THEN [heap |-> h, refs |-> out]
    ELSE LET one == HeapScenarioWindow(h, r, refs[i], tag)
         IN  HeapScenarioLoop(one.heap, r, refs, tag, i + 1, Append(out, one.ref))

\* applyScenarioMode(windows, scenarioType) called for request r.
HeapApplyScenarioMode(h, r, windowsRef, tag) ==
    LET mapped == HeapScenarioLoop(h, r, Cell(h, windowsRef), tag, 1, <<>>)
    IN  [heap |-> Alloc(mapped.heap, r, <<mapped.refs>>),
         ref |-> <<r, Len(mapped.heap[r]) + 1>>]

-----------------------------------------------------------------------------
(* Requests served by the windows route and the scenario route *)

\* The signals the mock store may hold, in the order of the list: a
\* low-impact one over [-1h, +0.5h), a high-impact one over [+1h, +2h) and a
\* medium-impact one over [+1.5h, +4.5h).
StoreMenu ==
    << << <<0 - HourMs, HalfHourMs>>, "low", "high" >>,
       << <<HourMs, 2 * HourMs>>, "high", "low" >>,
       << <<HourMs + HalfHourMs, 4 * HourMs + HalfHourMs>>, "medium", "medium" >> >>

\* The signals of the menu at the positions in `present`, in menu order.
StoreList(present) ==
    LET Present(i) == i \in present
        chosen == SelectSeq([i \in DOMAIN StoreMenu |-> i], Present)
    IN  WindowSignalList([k \in DOMAIN chosen |-> StoreMenu[chosen[k]]])

\* Clock readings of the requests, horizons and scenarios they ask for.
RequestNows == {0, HourMs}
RequestHorizons == {1}
Routes == {"windows", "scenario"}

IdleRequest ==
    [route |-> "none", now |-> 0, horizonDays |-> 0, scenarioType |-> "none",
     pc |-> "idle", signals |-> NoRef, windows |-> NoRef,
     scenarioWindows |-> NoRef, overlaps |-> NoRef]

InitRequests ==
    /\ \E present \in SUBSET DOMAIN StoreMenu : signals = StoreList(present)
    /\ heap = [r \in 0..MaxRequests |->
                  IF r = StoreRegion THEN LoadStore(signals) ELSE <<>>]
    /\ requests = [r \in 1..MaxRequests |-> IdleRequest]
    /\ exchange = Idle
    /\ storage = Idle
    /\ tabs = Idle
    /\ now = 0
    /\ horizonDays = DefaultHorizonDays
    /\ buckets = Idle
    /\ windows = Idle
    /\ mergedWindows = Idle
    /\ overlaps = Idle
    /\ inputWindows = Idle
    /\ scenarioType = "none"
    /\ scenarioWindows = Idle
    /\ pc = "ready"

\* GET of either route, from its start to the return of computeOutreachWindows.
\* The handler's reading of the clock and the one computeOutreachWindows takes
\* are the same instant nowT.
RouteComputeWindows(r) ==
    /\ requests[r].pc = "idle"
    /\ \E route \in Routes, nowT \in RequestNows, days \in RequestHorizons :
           LET filtered == FilterSignals(heap, r, nowT, days)
               computed == HeapComputeOutreachWindows(filtered.heap, r, filtered.ref,
                                                      days, nowT)
           IN  /\ heap' = computed.heap
               /\ requests' =
                      [requests EXCEPT ![r] =
                          [route |-> route,
                           now |-> nowT,
                           horizonDays |-> days,
                           scenarioType |-> IF route = "scenario" THEN "olympics"
                                            ELSE "none",
                           pc |-> "computed",
                           signals |-> filtered.ref,
                           windows |-> computed.ref,
                           scenarioWindows |-> NoRef,
                           overlaps |-> NoRef]]
    /\ UNCHANGED <<signals, horizonDays, now, buckets, windows, mergedWindows,
                   overlaps, inputWindows, scenarioType, scenarioWindows, pc,
                   exchange, storage, tabs>>

\* GET of the scenario route: applyScenarioMode(baseWindows, scenarioType).
RouteApplyScenario(r) ==
    /\ requests[r].pc = "computed"
    /\ requests[r].route = "scenario"
    /\ LET applied == HeapApplyScenarioMode(heap, r, requests[r].windows,
                                            requests[r].scenarioType)
       IN  /\ heap' = applied.heap
           /\ requests' = [requests EXCEPT ![r].pc = "applied",
                                           ![r].scenarioWindows = applied.ref]
    /\ UNCHANGED <<signals, horizonDays, now, buckets, windows, mergedWindows,
                   overlaps, inputWindows, scenarioType, scenarioWindows, pc,
                   exchange, storage, tabs>>

\* GET of either route: findSignalOverlaps(signals), the last call it makes.
RouteFindOverlaps(r) ==
    /\ \/ requests[r].route = "windows" /\ requests[r].pc = "computed"
       \/ requests[r].route = "scenario" /\ requests[r].pc = "applied"
    /\ LET found == HeapFindSignalOverlaps(heap, r, requests[r].signals)
       IN  /\ heap' = found.heap
           /\ requests' = [requests EXCEPT ![r].pc = "done",
                                           ![r].overlaps = found.ref]
    /\ UNCHANGED <<signals, horizonDays, now, buckets, windows, mergedWindows,
                   overlaps, inputWindows, scenarioType, scenarioWindows, pc,
                   exchange, storage, tabs>>

NextRequests ==
    \E r \in 1..MaxRequests :
        \/ RouteComputeWindows(r)
        \/ RouteApplyScenario(r)
        \/ RouteFindOverlaps(r)

SpecRequests == InitRequests /\ [][NextRequests]_vars

-----------------------------------------------------------------------------
(* The signals API: GET and HEAD of the civic route and of the temporal route *)

Null == "null"

SignalKinds ==
    {"sanitation", "eventPermit", "roadClosure", "transitDisruption", "displacementIndicator"}

TemporalSignalTypes ==
    {"sanitationCycle", "publicEvent", "shelterIntakeHours", "transitDisruption",
     "serviceBottleneck"}

\* The instants of the API routes reach 44 days, beyond 2^31 milliseconds; they
\* are whole seconds here (every offset of the mock stores is a whole hour).
HourSec == HourMs \div 1000
DaySec == HoursPerDay * HourSec

\* One civic mock signal; offsetDate(hours) is taken at module load, instant 0.
CivicSignal(id, kind, hours, latency, confidence) ==
    [id |-> id, kind |-> kind, timestamp |-> hours * HourSec,
     dataLatencyHours |-> latency, isSimulated |-> TRUE, confidenceLevel |-> confidence]

\* The civic mock store, in the order of the spread.
mockSignals ==
    << CivicSignal("san-001", "sanitation", 48, 24, "high"),
       CivicSignal("san-002", "sanitation", 72, 24, "high"),
       CivicSignal("san-003", "sanitation", 24, 48, "medium"),
       CivicSignal("evt-001", "eventPermit", 96, 48, "high"),
       CivicSignal("evt-002", "eventPermit", 168, 72, "medium"),
       CivicSignal("road-001", "roadClosure", 36, 24, "high"),
       CivicSignal("road-002", "roadClosure", 240, 168, "low"),
       CivicSignal("transit-001", "transitDisruption", 12, 6, "high"),
       CivicSignal("transit-002", "transitDisruption", 720, 48, "medium"),
       CivicSignal("ind-001", "displacementIndicator", -24, 72, "low"),
       CivicSignal("ind-002", "displacementIndicator", -168, 168, "low") >>

\* One temporal mock signal; timeRange(start, duration) is taken at module load.
TemporalSignal(id, type, impact, startHours, durationHours, latency) ==
    [id |-> id, signalType |-> type, impactLevel |-> impact,
     start |-> startHours * HourSec, end |-> (startHours + durationHours) * HourSec,
     dataLatencyHours |-> latency, isSimulated |-> TRUE]

\* The temporal mock store, in the order of the spread.
mockTemporalSignals ==
    << TemporalSignal("san-001", "sanitationCycle", "high", 48, 4, 24),
       TemporalSignal("san-002", "sanitationCycle", "high", 72, 6, 24),
       TemporalSignal("san-003", "sanitationCycle", "medium", 120, 3, 48),
       TemporalSignal("evt-001", "publicEvent", "medium", 96, 72, 48),
       TemporalSignal("evt-002", "publicEvent", "high", 168, 12, 72),
       TemporalSignal("evt-003", "publicEvent", "high", 720, 336, 168),
       TemporalSignal("shl-001", "shelterIntakeHours", "low", 24, 4, 24),
       TemporalSignal("shl-002", "shelterIntakeHours", "low", 48, 3, 24),
       TemporalSignal("trn-001", "transitDisruption", "medium", 12, 48, 24),
       TemporalSignal("trn-002", "transitDisruption", "low", 240, 72, 48),
       TemporalSignal("btl-001", "serviceBottleneck", "medium", 0, 168, 72),
       TemporalSignal("btl-002", "serviceBottleneck", "high", 48, 24, 24) >>

RECURSIVE InsertByTimestamp(_, _)
InsertByTimestamp(sorted, x) ==
    IF sorted = <<>> THEN <<x>>
    ELSE IF x.timestamp - sorted[Len(sorted)].timestamp <= 0 THEN Append(sorted, x)
    ELSE Append(InsertByTimestamp(SubSeq(sorted, 1, Len(sorted) - 1), x),
                sorted[Len(sorted)])

\* signals.sort((a, b) => time(b.timestamp) - time(a.timestamp)); stable.
RECURSIVE SortNewestFirst(_)
SortNewestFirst(list) ==
    IF list = <<>> THEN <<>>
    ELSE InsertByTimestamp(SortNewestFirst(SubSeq(list, 1, Len(list) - 1)),
                           list[Len(list)])

\* Math.min(...signals.map(s => s.dataLatencyHours)) for a non-empty list.
RECURSIVE MinLatency(_)
MinLatency(list) ==
    IF Len(list) = 1 THEN list[1].dataLatencyHours
    ELSE Min2(list[1].dataLatencyHours, MinLatency(Tail(list)))

\* signals.length > 0 ? Math.min(...) : 24
minimumLatencyHours(list) == IF Len(list) > 0 THEN MinLatency(list) ELSE 24

\* The meta block both GET handlers build.
ResponseMeta(list) ==
    [count |-> Len(list),
     minimumLatencyHours |-> minimumLatencyHours(list),
     containsSimulatedData |-> \E i \in DOMAIN list : list[i].isSimulated]

\* The result of parseInt on a query parameter: absent, NaN, or an integer.
Absent == [given |-> FALSE, nan |-> FALSE, value |-> 0]
NotANumber == [given |-> TRUE, nan |-> TRUE, value |-> 0]
Parsed(n) == [given |-> TRUE, nan |-> FALSE, value |-> n]

\* GET of the civic route: kind filter, confidence filter, newest first, limit.
CivicSignalsGet(kindFilter, confidenceFilter, limit) ==
    LET byKind(s) == s.kind = kindFilter
        byConfidence(s) == s.confidenceLevel = confidenceFilter
        s1 == IF kindFilter # Null THEN SelectSeq(mockSignals, byKind) ELSE mockSignals
        s2 == IF confidenceFilter # Null THEN SelectSeq(s1, byConfidence) ELSE s1
        s3 == SortNewestFirst(s2)
        s4 == IF limit.given /\ ~limit.nan /\ limit.value > 0
              THEN SliceFront(s3, limit.value) ELSE s3
    IN  [signals |-> s4, meta |-> ResponseMeta(s4)]

\* GET of the temporal route: type filter, impact filter, horizon, by start.
TemporalSignalsGet(typeFilter, impactFilter, horizon, nowT) ==
    LET days == IF horizon.given THEN horizon ELSE Parsed(DefaultHorizonDays)
        byType(s) == s.signalType = typeFilter
        byImpact(s) == s.impactLevel = impactFilter
        inHorizon(s) ==
            /\ ~days.nan
            /\ s.start <= nowT + days.value * DaySec
            /\ s.end >= nowT
        s1 == IF typeFilter # Null THEN SelectSeq(mockTemporalSignals, byType)
              ELSE mockTemporalSignals
        s2 == IF impactFilter # Null THEN SelectSeq(s1, byImpact) ELSE s1
        s3 == SelectSeq(s2, inHorizon)
        s4 == SortByStart(s3)
    IN  [signals |-> s4, meta |-> ResponseMeta(s4)]

\* The X-Minimum-Latency-Hours header of both HEAD handlers: "24".
AdvertisedLatency == <<50, 52>>

SignalsHead == [signals |-> <<>>, headers |-> [minimumLatencyHours |-> AdvertisedLatency]]

\* The requests a client can make of the two routes.
ApiRequests ==
    [route : {"signals"}, method : {"GET"},
     kind : SignalKinds \cup {Null, "other"},
     confidence : ConfidenceLevels \cup {Null, "other"},
     limit : {Absent, NotANumber, Parsed(-1), Parsed(0), Parsed(1), Parsed(3)}]
    \cup
    [route : {"temporal"}, method : {"GET"},
     type : TemporalSignalTypes \cup {Null, "other"},
     impact : ImpactLevels \cup {Null, "other"},
     horizon : {Absent, NotANumber, Parsed(-1), Parsed(0), Parsed(1), Parsed(30)},
     now : {0, 60 * HourSec, 60 * HourSec + 1}]
    \cup
    [route : {"signals", "temporal"}, method : {"HEAD"}]

InitApi ==
    /\ exchange = [phase |-> "idle"]
    /\ signals = <<>>
    /\ now = 0
    /\ horizonDays = DefaultHorizonDays
    /\ buckets = Idle
    /\ windows = Idle
    /\ mergedWindows = Idle
    /\ overlaps = Idle
    /\ inputWindows = Idle
    /\ scenarioType = "none"
    /\ scenarioWindows = Idle
    /\ pc = "ready"
    /\ heap = <<>>
    /\ requests = <<>>
    /\ storage = Idle
    /\ tabs = Idle

ApiUnchanged ==
    UNCHANGED <<signals, horizonDays, now, buckets, windows, mergedWindows, overlaps,
                inputWindows, scenarioType, scenarioWindows, pc, heap, requests,
                storage, tabs>>

\* A request reaches the server.
ReceiveRequest ==
    /\ exchange.phase = "idle"
    /\ \E request \in ApiRequests :
           exchange' = [phase |-> "received", request |-> request]
    /\ ApiUnchanged

CivicGET ==
    /\ exchange.phase = "received"
    /\ exchange.request.route = "signals" /\ exchange.request.method = "GET"
    /\ exchange' = [phase |-> "responded", request |-> exchange.request,
                    response |-> CivicSignalsGet(exchange.request.kind,
                                                 exchange.request.confidence,
                                                 exchange.request.limit)]
    /\ ApiUnchanged

TemporalGET ==
    /\ exchange.phase = "received"
    /\ exchange.request.route = "temporal" /\ exchange.request.method = "GET"
    /\ exchange' = [phase |-> "responded", request |-> exchange.request,
                    response |-> TemporalSignalsGet(exchange.request.type,
                                                    exchange.request.impact,
                                                    exchange.request.horizon,
                                                    exchange.request.now)]
    /\ ApiUnchanged

CivicHEAD ==
    /\ exchange.phase = "received"
    /\ exchange.request.route = "signals" /\ exchange.request.method = "HEAD"
    /\ exchange' = [phase |-> "responded", request |-> exchange.request,
                    response |-> SignalsHead]
    /\ ApiUnchanged

TemporalHEAD ==
    /\ exchange.phase = "received"
    /\ exchange.request.route = "temporal" /\ exchange.request.method = "HEAD"
    /\ exchange' = [phase |-> "responded", request |-> exchange.request,
                    response |-> SignalsHead]
    /\ ApiUnchanged

\* The response has gone out; the server takes the next request.
FinishRequest ==
    /\ exchange.phase = "responded"
    /\ exchange' = [phase |-> "idle"]
    /\ ApiUnchanged

NextApi ==
    \/ ReceiveRequest
    \/ CivicGET
    \/ TemporalGET
    \/ CivicHEAD
    \/ TemporalHEAD
    \/ FinishRequest

SpecApi == InitApi /\ [][NextApi]_vars

-----------------------------------------------------------------------------
(* The useAlerts hook (src/lib/alerts/useAlerts.ts) in the browser tabs that  *)
(* share one localStorage.  An instance is the hook state of its committed    *)
(* render (alerts, isLoaded), the ref, the queue of state updates not yet     *)
(* rendered, and the passive effects of the last commit not yet run.  React   *)
(* runs the effects of a commit before it renders again and applies queued    *)
(* updates in the order they were queued.                                     *)

Tabs == {1, 2}

AlertStatuses == {"open", "done"}
NoteTexts == {"bring water"}

\* createAlertFromDraft; the id stands for `alert-${Date.now()}-${random}`.
createAlertFromDraft(id, notes) == [id |-> id, status |-> "open", notes |-> notes]

\* JSON.stringify of one alert: a property whose value is undefined is left out.
StringifyAlert(alert) ==
    IF alert.notes = Undefined
    THEN [id |-> alert.id, status |-> alert.status]
    ELSE [id |-> alert.id, status |-> alert.status, notes |-> alert.notes]

\* JSON.stringify(alerts)
JsonStringify(alerts) == [i \in DOMAIN alerts |-> StringifyAlert(alerts[i])]

\* Reading the properties of a parsed alert: a missing property reads undefined.
ParseAlert(member) ==
    [id |-> member.id, status |-> member.status,
     notes |-> IF "notes" \in DOMAIN member THEN member.notes ELSE Undefined]

\* JSON.parse(stored)
JsonParse(text) == [i \in DOMAIN text |-> ParseAlert(text[i])]

\* The item under STORAGE_KEY: none, a string that is not JSON, or a JSON text.
NoItem == [present |-> FALSE, valid |-> FALSE, text |-> <<>>]
Corrupt == [present |-> TRUE, valid |-> FALSE, text |-> <<>>]
Item(text) == [present |-> TRUE, valid |-> TRUE, text |-> text]

loadAlerts(item) ==
    IF item.present /\ item.valid THEN JsonParse(item.text) ELSE <<>>

\* saveAlerts: the new item.
saveAlerts(alerts) == Item(JsonStringify(alerts))

\* The state updates setAlerts and setIsLoaded queue.
SetAlerts(list) == [op |-> "set", id |-> 0, status |-> "open", notes |-> Undefined, list |-> list]
SetIsLoaded == [op |-> "loaded", id |-> 0, status |-> "open", notes |-> Undefined, list |-> <<>>]
Prepend(alert) == [op |-> "create", id |-> alert.id, status |-> "open", notes |-> Undefined, list |-> <<alert>>]
MapStatus(id, status) == [op |-> "status", id |-> id, status |-> status, notes |-> Undefined, list |-> <<>>]
MapToggle(id) == [op |-> "toggle", id |-> id, status |-> "open", notes |-> Undefined, list |-> <<>>]
FilterOut(id) == [op |-> "delete", id |-> id, status |-> "open", notes |-> Undefined, list |-> <<>>]
MapNotes(id, notes) == [op |-> "notes", id |-> id, status |-> "open", notes |-> notes, list |-> <<>>]

\* One queued update applied to the hook state.
ApplyUpdate(st, u) ==
    LET prev == st.alerts
        keep(alert) == alert.id # u.id
    IN  CASE u.op = "set" -> [st EXCEPT !.alerts = u.list]
          [] u.op = "loaded" -> [st EXCEPT !.isLoaded = TRUE]
          [] u.op = "create" -> [st EXCEPT !.alerts = u.list \o prev]
          [] u.op = "status" ->
                 [st EXCEPT !.alerts = [i \in DOMAIN prev |->
                     IF prev[i].id = u.id THEN [prev[i] EXCEPT !.status = u.status]
                     ELSE prev[i]]]
          [] u.op = "toggle" ->
                 [st EXCEPT !.alerts = [i \in DOMAIN prev |->
                     IF prev[i].id = u.id
                     THEN [prev[i] EXCEPT !.status = IF @ = "open" THEN "done" ELSE "open"]
                     ELSE prev[i]]]
          [] u.op = "delete" -> [st EXCEPT !.alerts = SelectSeq(prev, keep)]
          [] u.op = "notes" ->
                 [st EXCEPT !.alerts = [i \in DOMAIN prev |->
                     IF prev[i].id = u.id THEN [prev[i] EXCEPT !.notes = u.notes]
                     ELSE prev[i]]]

RECURSIVE ApplyQueue(_, _)
ApplyQueue(st, queue) ==
    IF queue = <<>> THEN st ELSE ApplyQueue(ApplyUpdate(st, Head(queue)), Tail(queue))

\* The ids of the alerts in a storage item.
StoredIds(item) == { loadAlerts(item)[i].id : i \in DOMAIN loadAlerts(item) }

\* An instance that is not mounted.  saves, firstSaved, loaded, created,
\* deleted and storedAtCall record the calls the instance has made: the number
\* of setItem calls (up to 2), the text of the first, what loadAlerts
\* returned, the ids createAlert made and deleteAlert was given, and the ids
\* that were in storage when a callback was last called.
Unmounted ==
    [mounted |-> FALSE, alerts |-> <<>>, isLoaded |-> FALSE, loadedRef |-> FALSE,
     queue |-> <<>>, effects |-> FALSE, saveDue |-> FALSE,
     saves |-> 0, firstSaved |-> <<>>, loaded |-> <<>>, created |-> {}, deleted |-> {},
     storedAtCall |-> {}]

\* Faulty variant: the save effect does not wait for the load.
ShouldSave_Unguarded(tab) == Len(tab.alerts) >= 0

\* if (isLoaded && alerts.length >= 0)
ShouldSave(tab) == tab.isLoaded /\ Len(tab.alerts) >= 0

\* The load effect: its queued updates, if it has not run before.
LoadEffect(tab, item) ==
    IF tab.loadedRef THEN tab
    ELSE LET loaded == loadAlerts(item)
         IN  [tab EXCEPT !.loadedRef = TRUE,
                         !.loaded = loaded,
                         !.queue = @ \o (IF Len(loaded) > 0 THEN <<SetAlerts(loaded)>> ELSE <<>>)
                                     \o <<SetIsLoaded>>]

\* The alerts a stored item holds, before a first mount.
StoredAlert == [id |-> 0, status |-> "open", notes |-> Undefined]
InitialItems == {NoItem, Corrupt, Item(<<>>), saveAlerts(<<StoredAlert>>)}

MaxClock == 3

InitAlerts ==
    /\ storage \in InitialItems
    /\ tabs = [t \in Tabs |-> Unmounted]
    /\ now = 1
    /\ signals = <<>>
    /\ horizonDays = DefaultHorizonDays
    /\ buckets = Idle
    /\ windows = Idle
    /\ mergedWindows = Idle
    /\ overlaps = Idle
    /\ inputWindows = Idle
    /\ scenarioType = "none"
    /\ scenarioWindows = Idle
    /\ pc = "ready"
    /\ heap = <<>>
    /\ requests = <<>>
    /\ exchange = Idle

AlertsUnchanged ==
    UNCHANGED <<signals, horizonDays, buckets, windows, mergedWindows, overlaps,
                inputWindows, scenarioType, scenarioWindows, pc, heap, requests,
                exchange>>

\* The first render of useAlerts in tab t is committed.
Mount(t) ==
    /\ ~tabs[t].mounted
    /\ tabs' = [tabs EXCEPT ![t] = [Unmounted EXCEPT !.mounted = TRUE,
                                                      !.effects = TRUE,
                                                      !.saveDue = TRUE]]
    /\ UNCHANGED <<storage, now>>
    /\ AlertsUnchanged

\* The passive effects of the last commit of tab t run: the load effect, then
\* the save effect if its dependencies changed.
FlushEffects(t) ==
    /\ tabs[t].effects
    /\ LET tab == tabs[t]
           saving == tab.saveDue /\ ShouldSave(tab)
           after == LoadEffect(tab, storage)
       IN  /\ storage' = IF saving THEN saveAlerts(tab.alerts) ELSE storage
           /\ tabs' = [tabs EXCEPT ![t] =
                  [after EXCEPT !.effects = FALSE,
                                !.saveDue = FALSE,
                                !.saves = IF saving THEN Min2(@ + 1, 2) ELSE @,
                                !.firstSaved = IF saving /\ tab.saves = 0
                                               THEN JsonStringify(tab.alerts) ELSE @]]
    /\ UNCHANGED now
    /\ AlertsUnchanged

\* Tab t renders again: the queued updates are applied in order and the
\* result is committed.
Render(t) ==
    /\ tabs[t].mounted
    /\ ~tabs[t].effects
    /\ tabs[t].queue # <<>>
    /\ LET tab == tabs[t]
           st == ApplyQueue([alerts |-> tab.alerts, isLoaded |-> tab.isLoaded], tab.queue)
           alertsSet == \E i \in DOMAIN tab.queue : tab.queue[i].op # "loaded"
       IN  tabs' = [tabs EXCEPT ![t] =
               [tab EXCEPT !.alerts = st.alerts,
                           !.isLoaded = st.isLoaded,
                           !.queue = <<>>,
                           !.effects = alertsSet \/ st.isLoaded # tab.isLoaded,
                           !.saveDue = alertsSet \/ st.isLoaded # tab.isLoaded]]
    /\ UNCHANGED <<storage, now>>
    /\ AlertsUnchanged

\* The panel calls the hook's callbacks from the handlers of a render that
\* follows the mount (a filled form, a listed alert); the clock moves on.
CanCall(t) == tabs[t].mounted /\ tabs[t].isLoaded /\ now < MaxClock

Enqueue(t, u) ==
    /\ tabs' = [tabs EXCEPT ![t].queue = Append(@, u),
                            ![t].storedAtCall = StoredIds(storage)]
    /\ now' = now + 1
    /\ UNCHANGED storage
    /\ AlertsUnchanged

Listed(t) == { tabs[t].alerts[i].id : i \in DOMAIN tabs[t].alerts }

createAlert(t) ==
    /\ CanCall(t)
    /\ \E notes \in NoteTexts \cup {Undefined} :
           /\ tabs' = [tabs EXCEPT
                  ![t].queue = Append(@, Prepend(createAlertFromDraft(now, notes))),
                  ![t].created = @ \cup {now},
                  ![t].storedAtCall = StoredIds(storage)]
           /\ now' = now + 1
           /\ UNCHANGED storage
           /\ AlertsUnchanged

updateStatus(t) ==
    /\ CanCall(t)
    /\ \E id \in Listed(t) : \E status \in AlertStatuses : Enqueue(t, MapStatus(id, status))

toggleStatus(t) ==
    /\ CanCall(t)
    /\ \E id \in Listed(t) : Enqueue(t, MapToggle(id))

deleteAlert(t) ==
    /\ CanCall(t)
    /\ \E id \in Listed(t) :
           /\ tabs' = [tabs EXCEPT ![t].queue = Append(@, FilterOut(id)),
                                   ![t].deleted = @ \cup {id},
                                   ![t].storedAtCall = StoredIds(storage)]
           /\ now' = now + 1
           /\ UNCHANGED storage
           /\ AlertsUnchanged

updateNotes(t) ==
    /\ CanCall(t)
    /\ \E id \in Listed(t) : \E notes \in NoteTexts : Enqueue(t, MapNotes(id, notes))

NextAlerts ==
    \E t \in Tabs :
        \/ Mount(t)
        \/ FlushEffects(t)
        \/ Render(t)
        \/ createAlert(t)
        \/ updateStatus(t)
        \/ toggleStatus(t)
        \/ deleteAlert(t)
        \/ updateNotes(t)

SpecAlerts == InitAlerts /\ [][NextAlerts]_vars

-----------------------------------------------------------------------------
(* Properties of computeOutreachWindows *)

WindowsReturned == pc = "computeOutreachWindows"

\* The thresholds as the data model states them.
ThresholdClass(score) ==
    IF score <= 1 THEN "safer" ELSE IF score = 2 THEN "caution" ELSE "highDisruption"

BucketClass(k) == ThresholdClass(buckets[k].score)

\* The hourly buckets lying inside a window's time range.
BucketsIn(w) ==
    { k \in DOMAIN buckets : w.start <= buckets[k].start /\ buckets[k].end <= w.end }

\* C1: for a positive whole-day horizon the returned list partitions
\* [now, now + N days): it is not empty, the first window starts at now, the
\* last ends at now + N days, every window has positive duration and each
\* window ends where the next starts.
C1_Partition ==
    (WindowsReturned /\ horizonDays >= 1) =>
        /\ Len(mergedWindows) >= 1
        /\ mergedWindows[1].start = now
        /\ mergedWindows[Len(mergedWindows)].end = now + horizonDays * DayMs
        /\ \A i \in DOMAIN mergedWindows : mergedWindows[i].start < mergedWindows[i].end
        /\ \A i \in 1..(Len(mergedWindows) - 1) :
               mergedWindows[i].end = mergedWindows[i + 1].start

\* The cleanup pass has absorbed a window and the result has several windows.
C1_Witness ==
    /\ WindowsReturned
    /\ horizonDays >= 1
    /\ Len(mergedWindows) >= 2
    /\ Len(windows) > Len(mergedWindows)

StatedWeight(level) ==
    CASE level = "low" -> 1 [] level = "medium" -> 2 [] level = "high" -> 3

RECURSIVE StatedWeightSum(_)
StatedWeightSum(S) ==
    IF S = {} THEN 0
    ELSE LET i == CHOOSE x \in S : TRUE
         IN  StatedWeight(signals[i].impactLevel) + StatedWeightSum(S \ {i})

\* C3: the buckets are the hours of the horizon in order, and every bucket's
\* score is the sum of the impact weights of exactly the signals with
\* signalStart < bucketEnd and signalEnd > bucketStart; a signal that only
\* touches the bucket is not among its contributors.
C3_BucketScore ==
    WindowsReturned =>
        /\ horizonDays >= 1 => Len(buckets) = HoursPerDay * horizonDays
        /\ \A k \in DOMAIN buckets :
               LET b == buckets[k]
                   overlapping == { i \in DOMAIN signals :
                                       signals[i].start < b.end /\ signals[i].end > b.start }
               IN  /\ b.start = now + (k - 1) * HourMs
                   /\ b.end = b.start + HourMs
                   /\ b.score = StatedWeightSum(overlapping)
                   /\ { b.signals[j] : j \in DOMAIN b.signals } = overlapping
                   /\ \A i \in DOMAIN signals :
                          (signals[i].end = b.start \/ signals[i].start = b.end) =>
                              \A j \in DOMAIN b.signals : b.signals[j] # i

\* Some bucket is touched by one signal at its start, by another at its end,
\* and some bucket has a positive score.
C3_Witness ==
    /\ WindowsReturned
    /\ \E k \in DOMAIN buckets : \E i \in DOMAIN signals :
           signals[i].end = buckets[k].start
    /\ \E k \in DOMAIN buckets : \E i \in DOMAIN signals :
           signals[i].start = buckets[k].end
    /\ \E k \in DOMAIN buckets : buckets[k].score >= 3

\* C4: with no signals and a positive whole-day horizon the result is a single
\* safer window over [now, now + N days) with no driver ids, the neutral
\* explanation and confidence "low".
C4_EmptySignals ==
    (WindowsReturned /\ signals = <<>> /\ horizonDays >= 1) =>
        /\ Len(mergedWindows) = 1
        /\ mergedWindows[1].windowType = "safer"
        /\ mergedWindows[1].start = now
        /\ mergedWindows[1].end = now + horizonDays * DayMs
        /\ mergedWindows[1].driverSignalIds = <<>>
        /\ mergedWindows[1].plainLanguageWhy.template =
             "No significant signals affecting this time period. Standard outreach conditions expected."
        /\ mergedWindows[1].plainLanguageWhy.detail = <<>>
        /\ mergedWindows[1].confidenceSummary = "low"

\* The call with no signals and the default horizon of 14 days has returned.
C4_Witness ==
    /\ WindowsReturned
    /\ signals = <<>>
    /\ horizonDays = DefaultHorizonDays
    /\ Len(mergedWindows) = 1

-----------------------------------------------------------------------------
(* Properties of findSignalOverlaps *)

OverlapsReturned == pc = "findSignalOverlaps"

DistinctIds == \A i, j \in DOMAIN signals : i # j => signals[i].id # signals[j].id

\* The pairs i < j of medium-or-high signals whose ranges intersect.
IntersectingPairs ==
    { p \in (DOMAIN signals) \X (DOMAIN signals) :
        /\ p[1] < p[2]
        /\ signals[p[1]].impactLevel \in {"medium", "high"}
        /\ signals[p[2]].impactLevel \in {"medium", "high"}
        /\ signals[p[1]].start < signals[p[2]].end
        /\ signals[p[1]].end > signals[p[2]].start }

\* The records of the result that list the two signals of the pair p.
RecordsOf(p) ==
    { k \in DOMAIN overlaps :
        { overlaps[k].signalIds[1], overlaps[k].signalIds[2] } =
            { signals[p[1]].id, signals[p[2]].id } }

\* C5 as stated: with pairwise distinct ids the result holds exactly one
\* record for every intersecting pair of medium-or-high signals and no other
\* record.
C5_Original ==
    (OverlapsReturned /\ DistinctIds) =>
        /\ \A p \in IntersectingPairs : Cardinality(RecordsOf(p)) = 1
        /\ \A k \in DOMAIN overlaps : \E p \in IntersectingPairs : k \in RecordsOf(p)

\* The signals (looked up by id) that a record lists.
SignalsOf(record) ==
    { i \in DOMAIN signals :
        signals[i].id = record.signalIds[1] \/ signals[i].id = record.signalIds[2] }

\* C6: no record lists a low-impact signal.
C6_NoLowImpact ==
    OverlapsReturned =>
        \A k \in DOMAIN overlaps :
            /\ Len(overlaps[k].signalIds) = 2
            /\ \A i \in SignalsOf(overlaps[k]) :
                   signals[i].impactLevel \in {"medium", "high"}

\* A low-impact signal intersects a high-impact signal, and a record is returned.
C6_Witness ==
    /\ OverlapsReturned
    /\ overlaps # <<>>
    /\ \E i, j \in DOMAIN signals :
           /\ signals[i].impactLevel = "low"
           /\ signals[j].impactLevel = "high"
           /\ signals[i].start < signals[j].end
           /\ signals[i].end > signals[j].start

\* C7: a record's range is [max of the starts, min of the ends) of its two
\* signals and is not empty; medium [24h, 28h) with high [26h, 30h) gives the
\* single range [26h, 28h).
C7_Intersection ==
    OverlapsReturned =>
        /\ \A k \in DOMAIN overlaps :
               \E i, j \in DOMAIN signals :
                   /\ i < j
                   /\ overlaps[k].signalIds = <<signals[i].id, signals[j].id>>
                   /\ overlaps[k].start >= signals[i].start
                   /\ overlaps[k].start >= signals[j].start
                   /\ overlaps[k].start \in {signals[i].start, signals[j].start}
                   /\ overlaps[k].end <= signals[i].end
                   /\ overlaps[k].end <= signals[j].end
                   /\ overlaps[k].end \in {signals[i].end, signals[j].end}
                   /\ overlaps[k].start < overlaps[k].end
        /\ ( /\ Len(signals) = 2
             /\ signals[1].impactLevel = "medium"
             /\ signals[1].start = 24 * HourMs /\ signals[1].end = 28 * HourMs
             /\ signals[2].impactLevel = "high"
             /\ signals[2].start = 26 * HourMs /\ signals[2].end = 30 * HourMs )
           => /\ Len(overlaps) = 1
              /\ overlaps[1].start = 26 * HourMs
              /\ overlaps[1].end = 28 * HourMs

\* The call on medium [24h, 28h) and high [26h, 30h) has returned its record.
C7_Witness ==
    /\ OverlapsReturned
    /\ Len(signals) = 2
    /\ signals[1].impactLevel = "medium"
    /\ signals[1].start = 24 * HourMs /\ signals[1].end = 28 * HourMs
    /\ signals[2].impactLevel = "high"
    /\ signals[2].start = 26 * HourMs /\ signals[2].end = 30 * HourMs
    /\ Len(overlaps) = 1

\* C8: combinedImpact follows the sum s of the two impact weights: high when
\* s >= 5, medium when 3 <= s < 5, low otherwise.
C8_CombinedImpact ==
    OverlapsReturned =>
        \A k \in DOMAIN overlaps :
            \E i, j \in DOMAIN signals :
                /\ i < j
                /\ overlaps[k].signalIds = <<signals[i].id, signals[j].id>>
                /\ LET sum == StatedWeight(signals[i].impactLevel)
                               + StatedWeight(signals[j].impactLevel)
                   IN  overlaps[k].combinedImpact =
                           IF sum >= 5 THEN "high"
                           ELSE IF sum >= 3 THEN "medium"
                           ELSE "low"

\* Records of combined impact high and medium are returned, one of them for a
\* weight sum of exactly 5.
C8_Witness ==
    /\ OverlapsReturned
    /\ \E k \in DOMAIN overlaps : overlaps[k].combinedImpact = "medium"
    /\ \E k \in DOMAIN overlaps :
           /\ overlaps[k].combinedImpact = "high"
           /\ \E i, j \in DOMAIN signals :
                  /\ overlaps[k].signalIds = <<signals[i].id, signals[j].id>>
                  /\ signals[i].impactLevel # signals[j].impactLevel

\* Position of the signal with the given id in the list.
IndexOfId(id) == CHOOSE i \in DOMAIN signals : signals[i].id = id

\* p is scanned before q: i < j pairs are scanned in lexicographic order.
ScannedBefore(p, q) ==
    LET pi == IndexOfId(p.signalIds[1])
        pj == IndexOfId(p.signalIds[2])
        qi == IndexOfId(q.signalIds[1])
        qj == IndexOfId(q.signalIds[2])
    IN  pi < qi \/ (pi = qi /\ pj < qj)

\* C9: the result is in non-decreasing order of intersection start, and
\* records of equal start are in pair-scan order.
C9_SortedStable ==
    OverlapsReturned =>
        \A k, l \in DOMAIN overlaps :
            k < l =>
                /\ overlaps[k].start <= overlaps[l].start
                /\ overlaps[k].start = overlaps[l].start =>
                       ScannedBefore(overlaps[k], overlaps[l])

\* The result holds two records of equal start and a record that was scanned
\* after a record of later start.
C9_Witness ==
    /\ OverlapsReturned
    /\ \E k, l \in DOMAIN overlaps : k < l /\ overlaps[k].start = overlaps[l].start
    /\ \E k, l \in DOMAIN overlaps :
           /\ k < l
           /\ overlaps[k].start < overlaps[l].start
           /\ ScannedBefore(overlaps[l], overlaps[k])

-----------------------------------------------------------------------------
(* Properties of applyScenarioMode *)

ScenarioReturned == pc = "applyScenarioMode"

\* Tenths of the stated factor: 0.7 for "olympics", 0.8 otherwise.
StatedTenths == IF scenarioType = "olympics" THEN 7 ELSE 8

C11_CautionUpgraded ==
    ScenarioReturned =>
        /\ Len(scenarioWindows) = Len(inputWindows)
        /\ \A i \in DOMAIN inputWindows :
               /\ scenarioWindows[i].id = ScenarioId(inputWindows[i].id)
               /\ scenarioWindows[i].windowType # "caution"
               /\ inputWindows[i].windowType \in {"caution", "highDisruption"} =>
                      /\ scenarioWindows[i].windowType = "highDisruption"
                      /\ scenarioWindows[i].start = inputWindows[i].start
                      /\ scenarioWindows[i].end = inputWindows[i].end

\* A list holding a highDisruption window followed by a caution window has
\* gone through a scenario.
C11_Witness ==
    /\ ScenarioReturned
    /\ Len(inputWindows) = 2
    /\ inputWindows[1].windowType = "highDisruption"
    /\ inputWindows[2].windowType = "caution"
    /\ inputWindows[2].start < inputWindows[2].end
    /\ scenarioWindows[2].windowType = "highDisruption"

\* C12: for an input window with start <= end the output window has the same
\* start, an end that is not before its start and not after the input's end,
\* and an end that differs from the input's only if the window is safer.
C12_RangeWithin ==
    ScenarioReturned =>
        \A i \in DOMAIN inputWindows :
            inputWindows[i].start <= inputWindows[i].end =>
                /\ scenarioWindows[i].start = inputWindows[i].start
                /\ scenarioWindows[i].end >= scenarioWindows[i].start
                /\ scenarioWindows[i].end <= inputWindows[i].end
                /\ scenarioWindows[i].end # inputWindows[i].end =>
                       inputWindows[i].windowType = "safer"

\* A safer window of one millisecond has shrunk to an empty range, and a
\* window of another type has kept its end, under a declared scenario tag.
C12_Witness ==
    /\ ScenarioReturned
    /\ scenarioType \in {"olympics", "majorEvent"}
    /\ \E i \in DOMAIN inputWindows :
           /\ inputWindows[i].windowType = "safer"
           /\ inputWindows[i].end = inputWindows[i].start + 1
           /\ scenarioWindows[i].end = scenarioWindows[i].start
    /\ \E i \in DOMAIN inputWindows :
           /\ inputWindows[i].windowType # "safer"
           /\ inputWindows[i].start < inputWindows[i].end
           /\ scenarioWindows[i].end = inputWindows[i].end

-----------------------------------------------------------------------------
(* Properties of the entry points as the route handlers call them *)

\* The addresses of the signal objects in the array at ref and of their
\* timeRange objects, with ref itself.
SignalCells(h, ref) ==
    {ref} \cup { Cell(h, ref)[i] : i \in DOMAIN Cell(h, ref) }
          \cup { Cell(h, Cell(h, ref)[i]).timeRange : i \in DOMAIN Cell(h, ref) }

\* The addresses of the window objects in the array at ref, of their
\* timeRange objects and of their driverSignalIds arrays, with ref itself.
WindowCells(h, ref) ==
    {ref} \cup { Cell(h, ref)[i] : i \in DOMAIN Cell(h, ref) }
          \cup { Cell(h, Cell(h, ref)[i]).timeRange : i \in DOMAIN Cell(h, ref) }
          \cup { Cell(h, Cell(h, ref)[i]).driverSignalIds : i \in DOMAIN Cell(h, ref) }

\* C13: a call of computeOutreachWindows or of findSignalOverlaps leaves the
\* signal array it is given, the signal objects in it and their timeRange
\* objects as they were, and a call of applyScenarioMode leaves the window
\* array it is given, the window objects in it and their timeRange and
\* driverSignalIds objects as they were.
C13_InputsUnchanged ==
    [][\A r \in 1..MaxRequests :
          /\ RouteComputeWindows(r) =>
                 \E nowT \in RequestNows, days \in RequestHorizons :
                     LET given == FilterSignals(heap, r, nowT, days)
                     IN  /\ requests'[r].now = nowT
                         /\ requests'[r].horizonDays = days
                         /\ requests'[r].signals = given.ref
                         /\ \A a \in SignalCells(given.heap, given.ref) :
                                Cell(heap', a) = Cell(given.heap, a)
          /\ RouteFindOverlaps(r) =>
                 \A a \in SignalCells(heap, requests[r].signals) :
                     Cell(heap', a) = Cell(heap, a)
          /\ RouteApplyScenario(r) =>
                 \A a \in WindowCells(heap, requests[r].windows) :
                     Cell(heap', a) = Cell(heap, a)
      ]_vars

\* A scenario request has gone through applyScenarioMode on base windows one
\* of which absorbed a short window in place, and a scenario window made from
\* a caution window shares its timeRange object and its driverSignalIds array
\* with that window.
C13_Witness ==
    \E r \in 1..MaxRequests :
        /\ requests[r].pc = "done"
        /\ requests[r].route = "scenario"
        /\ \E i \in DOMAIN Cell(heap, requests[r].windows) :
               LET base == Cell(heap, requests[r].windows)[i]
               IN  Cell(heap, base).driverSignalIds[2] > base[2]
        /\ \E i \in DOMAIN Cell(heap, requests[r].windows) :
               LET base == Cell(heap, requests[r].windows)[i]
                   made == Cell(heap, requests[r].scenarioWindows)[i]
               IN  /\ made # base
                   /\ Cell(heap, made).timeRange = Cell(heap, base).timeRange
                   /\ Cell(heap, made).driverSignalIds = Cell(heap, base).driverSignalIds
                   /\ Cell(heap, base).windowType = "caution"
                   /\ Cell(heap, made).windowType = "highDisruption"

\* The signals of the store, as loaded, that a request's filter lets through.
SignalsFor(request) ==
    LET Kept(signal) ==
            /\ signal.start <= request.now + request.horizonDays * DayMs
            /\ signal.end >= request.now
    IN  SelectSeq(signals, Kept)

\* C14: whatever calls of other requests came in between, each call has
\* returned, and its result still is, what the entry point yields on the
\* request's own arguments alone.
C14_Independent ==
    \A r \in 1..MaxRequests :
        LET request == requests[r]
            alone == computeOutreachWindows(SignalsFor(request), request.horizonDays,
                                            request.now)
        IN  /\ request.pc \in {"computed", "applied", "done"} =>
                   /\ SignalListValue(heap, request.signals) = SignalsFor(request)
                   /\ WindowListValue(heap, request.windows) = alone
            /\ request.scenarioWindows # NoRef =>
                   WindowListValue(heap, request.scenarioWindows) =
                       applyScenarioMode(alone, request.scenarioType)
            /\ request.pc = "done" =>
                   Cell(heap, request.overlaps) = findSignalOverlaps(SignalsFor(request))

\* A request is done, with an overlap found, and another, with another clock
\* reading, has computed its windows and not gone on; the store holds a signal
\* that only one of them drops, and the windows of one were made by a cleanup
\* that absorbed a window.
C14_Witness ==
    \E r, q \in 1..MaxRequests :
        /\ r # q
        /\ requests[r].pc = "done"
        /\ requests[q].pc = "computed"
        /\ requests[r].now # requests[q].now
        /\ Len(Cell(heap, requests[r].signals)) # Len(Cell(heap, requests[q].signals))
        /\ Len(Cell(heap, requests[r].windows)) >= 2
        /\ Len(Cell(heap, requests[q].windows)) >= 2
        /\ Len(Cell(heap, requests[r].overlaps)) >= 1
        /\ \E i \in DOMAIN Cell(heap, requests[q].windows) :
               LET w == Cell(heap, requests[q].windows)[i]
               IN  Cell(heap, w).driverSignalIds[2] > w[2]

-----------------------------------------------------------------------------
(* Properties of the cleanup pass of computeOutreachWindows *)

\* C15 as stated: no two adjacent returned windows have the same type.
C15_Original ==
    WindowsReturned =>
        \A j \in 1..(Len(mergedWindows) - 1) :
            mergedWindows[j].windowType # mergedWindows[j + 1].windowType

\* A window is shorter than two hours.
StatedShort(w) == w.end - w.start < 2 * HourMs

\* C16: no returned window other than the first is shorter than 2 hours, and
\* every returned window runs from the start of a window of the merge scan
\* that is the first or not short, to the end of the last window of the run
\* of consecutive short windows that follows it.
C16_ShortAbsorbed ==
    WindowsReturned =>
        /\ \A j \in 2..Len(mergedWindows) : ~StatedShort(mergedWindows[j])
        /\ \A j \in DOMAIN mergedWindows :
               \E p \in DOMAIN windows : \E q \in p..Len(windows) :
                   /\ mergedWindows[j].start = windows[p].start
                   /\ mergedWindows[j].end = windows[q].end
                   /\ p = 1 \/ ~StatedShort(windows[p])
                   /\ \A k \in (p + 1)..q : StatedShort(windows[k])
                   /\ q < Len(windows) => ~StatedShort(windows[q + 1])

\* Two consecutive short windows, neither the first of the scan, have been
\* absorbed.
C16_Witness ==
    /\ WindowsReturned
    /\ Len(mergedWindows) >= 2
    /\ \E k \in 2..(Len(windows) - 1) :
           /\ StatedShort(windows[k])
           /\ StatedShort(windows[k + 1])
           /\ \E j \in DOMAIN mergedWindows :
                  /\ mergedWindows[j].start < windows[k].start
                  /\ windows[k + 1].end <= mergedWindows[j].end

\* The signals that contribute to an hourly bucket inside the window's range.
Contributors(w) ==
    { i \in DOMAIN signals :
        \E k \in BucketsIn(w) :
            signals[i].start < buckets[k].end /\ signals[i].end > buckets[k].start }

\* C17: for signals with pairwise distinct ids a returned window lists no id
\* twice, and the ids it lists are those of the signals contributing to a
\* bucket inside its final range.
C17_DriverIds ==
    (WindowsReturned /\ DistinctIds) =>
        \A j \in DOMAIN mergedWindows :
            LET ids == mergedWindows[j].driverSignalIds
            IN  /\ \A a, b \in DOMAIN ids : a # b => ids[a] # ids[b]
                /\ { ids[a] : a \in DOMAIN ids } =
                       { signals[i].id : i \in Contributors(mergedWindows[j]) }

\* A returned window has absorbed a short window and lists a signal that
\* contributes only to the absorbed part, next to one of its own.
C17_Witness ==
    /\ WindowsReturned
    /\ DistinctIds
    /\ \E j \in DOMAIN mergedWindows : \E p \in DOMAIN windows :
           /\ windows[p].start = mergedWindows[j].start
           /\ windows[p].end < mergedWindows[j].end
           /\ Len(windows[p].driverSignalIds) >= 1
           /\ Len(mergedWindows[j].driverSignalIds) > Len(windows[p].driverSignalIds)

\* The lowest of a set of confidence levels, "low" for the empty set.
LowestConfidence(levels) ==
    IF levels = {} \/ "low" \in levels THEN "low"
    ELSE IF "medium" \in levels THEN "medium"
    ELSE "high"

\* The confidence levels of the signals whose ids the window lists.
DriverConfidences(w) ==
    { signals[i].confidenceLevel :
        i \in { i \in DOMAIN signals :
                  \E a \in DOMAIN w.driverSignalIds : w.driverSignalIds[a] = signals[i].id } }

\* C18 as stated: confidenceSummary is the lowest confidence level among the
\* signals listed in driverSignalIds, and "low" when none is listed.
C18_Original ==
    WindowsReturned =>
        \A j \in DOMAIN mergedWindows :
            mergedWindows[j].confidenceSummary =
                LowestConfidence(DriverConfidences(mergedWindows[j]))

\* The largest of a non-empty set of scores.
MaxScore(S) == CHOOSE m \in S : \A x \in S : x <= m

\* C19 as stated: impactScore is the maximum score of the hourly buckets inside
\* the window's range.
C19_Original ==
    WindowsReturned =>
        \A j \in DOMAIN mergedWindows :
            mergedWindows[j].impactScore =
                MaxScore({ buckets[k].score : k \in BucketsIn(mergedWindows[j]) })

\* C20: for a horizon of zero or fewer days the call returns the empty list.
C20_NonPositiveHorizon ==
    (WindowsReturned /\ horizonDays <= 0) => mergedWindows = <<>>

\* A call on a full signal list whose first signal is active at the clock
\* reading has returned the empty list for a horizon of zero or fewer days.
C20_Witness ==
    /\ WindowsReturned
    /\ horizonDays <= 0
    /\ Len(signals) = MaxSignals
    /\ signals[1].start < now /\ signals[1].end > now
    /\ mergedWindows = <<>>

-----------------------------------------------------------------------------
(* Further properties of applyScenarioMode *)

\* C21: under a tag other than "olympics", declared or not, a safer window is
\* compressed by 0.8 (cut down to a whole millisecond) and the whole result is
\* the one "majorEvent" gives; an empty list gives an empty list under every
\* tag.
C21_DefaultFactor ==
    ScenarioReturned =>
        /\ Len(scenarioWindows) = Len(inputWindows)
        /\ inputWindows = <<>> => scenarioWindows = <<>>
        /\ scenarioType # "olympics" =>
               /\ scenarioWindows = applyScenarioMode(inputWindows, "majorEvent")
               /\ \A i \in DOMAIN inputWindows :
                      inputWindows[i].windowType = "safer" =>
                          LET duration == inputWindows[i].end - inputWindows[i].start
                              newDuration == scenarioWindows[i].end - scenarioWindows[i].start
                          IN  /\ 10 * newDuration <= 8 * duration
                              /\ 8 * duration < 10 * newDuration + 10

\* A safer window of 10 hours has come out as one of 8 hours under a tag that
\* is not declared.
C21_Witness ==
    /\ ScenarioReturned
    /\ scenarioType \notin {"olympics", "majorEvent"}
    /\ \E i \in DOMAIN inputWindows :
           /\ inputWindows[i].windowType = "safer"
           /\ inputWindows[i].end - inputWindows[i].start = 10 * HourMs
           /\ scenarioWindows[i].end - scenarioWindows[i].start = 8 * HourMs

\* The ids of the windows in the array at ref, as strings.
IdTexts(ref) ==
    [i \in DOMAIN Cell(heap, ref) |-> IdText(Cell(heap, Cell(heap, ref)[i]).id)]

\* C22: an output window's id is "scenario-" followed by the id of the input
\* window it was made from; for an input returned by computeOutreachWindows
\* the output ids differ from one another and from every input id.
C22_ScenarioIds ==
    \A r \in 1..MaxRequests :
        requests[r].scenarioWindows # NoRef =>
            LET ins == IdTexts(requests[r].windows)
                outs == IdTexts(requests[r].scenarioWindows)
            IN  /\ Len(outs) = Len(ins)
                /\ \A i \in DOMAIN ins : outs[i] = ScenarioPrefix \o ins[i]
                /\ \A i, j \in DOMAIN outs : i # j => outs[i] # outs[j]
                /\ \A i \in DOMAIN outs : \A j \in DOMAIN ins : outs[i] # ins[j]

\* The scenario has been applied to a list of two windows or more whose
\* numbering has a gap left by cleanup.
C22_Witness ==
    \E r \in 1..MaxRequests :
        /\ requests[r].scenarioWindows # NoRef
        /\ Len(Cell(heap, requests[r].windows)) >= 2
        /\ \E i \in 1..(Len(Cell(heap, requests[r].windows)) - 1) :
               Cell(heap, Cell(heap, requests[r].windows)[i + 1]).id.num >
                   Cell(heap, Cell(heap, requests[r].windows)[i]).id.num + 1

-----------------------------------------------------------------------------
(* Properties of the escalation step of the cleanup pass *)

\* The order of the window types as stated: safer < caution < highDisruption.
StatedRank(type) ==
    CASE type = "safer" -> 1 [] type = "caution" -> 2 [] type = "highDisruption" -> 3

\* The windows of the merge scan that lie inside a returned window: the one
\* that started it and the ones it absorbed.
Constituents(w) ==
    { p \in DOMAIN windows : windows[p].start >= w.start /\ windows[p].end <= w.end }

\* The window of the merge scan that started a returned window.
Starter(w) == CHOOSE p \in Constituents(w) : windows[p].start = w.start

\* The first constituent of the highest stated rank.
Highest(w) ==
    CHOOSE p \in Constituents(w) :
        \A q \in Constituents(w) :
            \/ StatedRank(windows[q].windowType) < StatedRank(windows[p].windowType)
            \/ StatedRank(windows[q].windowType) = StatedRank(windows[p].windowType) /\ p <= q

\* C24 (as stated): a returned window carries the highest type among the
\* window that started it and the windows it absorbed, with that window's
\* explanation and suggested approach.
C24_Original ==
    WindowsReturned =>
        \A j \in DOMAIN mergedWindows :
            LET w == mergedWindows[j]
                top == windows[Highest(w)]
            IN  /\ w.windowType = top.windowType
                /\ w.plainLanguageWhy = top.plainLanguageWhy
                /\ w.suggestedApproach = top.suggestedApproach

\* C25: the escalation comparison is false for every pair of window types,
\* and every returned window has the type, explanation and suggested approach
\* of the window of the merge scan that started it.
C25_NeverEscalates ==
    /\ \A a, b \in WindowTypes :
           ~ShouldEscalate([windowType |-> a], [windowType |-> b])
    /\ WindowsReturned =>
           \A j \in DOMAIN mergedWindows :
               LET w == mergedWindows[j]
               IN  /\ \E p \in DOMAIN windows : windows[p].start = w.start
                   /\ w.windowType = windows[Starter(w)].windowType
                   /\ w.plainLanguageWhy = windows[Starter(w)].plainLanguageWhy
                   /\ w.suggestedApproach = windows[Starter(w)].suggestedApproach

\* A returned safer window has absorbed a highDisruption window.
C25_Witness ==
    /\ WindowsReturned
    /\ \E j \in DOMAIN mergedWindows :
           /\ mergedWindows[j].windowType = "safer"
           /\ \E p \in Constituents(mergedWindows[j]) :
                  /\ windows[p].windowType = "highDisruption"
                  /\ windows[p].start > mergedWindows[j].start

\* C29 (as stated): a returned window carries the neutral explanation exactly
\* when it lists no driver signal.
C29_Original ==
    WindowsReturned =>
        \A j \in DOMAIN mergedWindows :
            (mergedWindows[j].plainLanguageWhy = NeutralExplanation)
                <=> (mergedWindows[j].driverSignalIds = <<>>)

-----------------------------------------------------------------------------
(* Further properties of findSignalOverlaps *)

\* C27: no returned record has combinedImpact "low": a record of two medium
\* signals is medium and a record that lists a high signal is high.
C27_NeverLow ==
    OverlapsReturned =>
        \A k \in DOMAIN overlaps :
            /\ overlaps[k].combinedImpact # "low"
            /\ \E i, j \in DOMAIN signals :
                   /\ i < j
                   /\ overlaps[k].signalIds = <<signals[i].id, signals[j].id>>
                   /\ StatedWeight(signals[i].impactLevel)
                          + StatedWeight(signals[j].impactLevel) >= 4
                   /\ overlaps[k].combinedImpact =
                          IF signals[i].impactLevel = "medium" /\ signals[j].impactLevel = "medium"
                          THEN "medium" ELSE "high"

\* Records have been returned for a pair of medium signals and for a pair of
\* high signals.
C27_Witness ==
    /\ OverlapsReturned
    /\ DistinctIds
    /\ \E i, j \in DOMAIN signals :
           /\ signals[i].impactLevel = "medium" /\ signals[j].impactLevel = "medium"
           /\ \E k \in DOMAIN overlaps :
                  overlaps[k].signalIds = <<signals[i].id, signals[j].id>>
    /\ \E i, j \in DOMAIN signals :
           /\ signals[i].impactLevel = "high" /\ signals[j].impactLevel = "high"
           /\ \E k \in DOMAIN overlaps :
                  overlaps[k].signalIds = <<signals[i].id, signals[j].id>>

\* The unordered pairs of signals that pass the filter.
ImpactfulPairs ==
    { p \in (DOMAIN signals) \X (DOMAIN signals) :
        p[1] < p[2] /\ IsImpactful(signals[p[1]]) /\ IsImpactful(signals[p[2]]) }

\* C28 (as stated): with pairwise distinct ids two different pairs of signals
\* never have the same dedup key, so every intersecting pair has its record.
C28_Original ==
    (OverlapsReturned /\ DistinctIds) =>
        /\ \A p, q \in ImpactfulPairs :
               p # q => PairKey(signals[p[1]], signals[p[2]])
                            # PairKey(signals[q[1]], signals[q[2]])
        /\ \A p \in IntersectingPairs : RecordsOf(p) # {}

-----------------------------------------------------------------------------
(* Properties of the signals API *)

Responded == exchange.phase = "responded"

\* C23 (as stated): every signal of a GET response of the two signals routes
\* has dataLatencyHours >= 24 and so has the response's minimumLatencyHours,
\* in agreement with the 24 the HEAD handlers advertise.
C23_Original ==
    Responded =>
        IF exchange.request.method = "GET"
        THEN /\ \A i \in DOMAIN exchange.response.signals :
                    exchange.response.signals[i].dataLatencyHours >= 24
             /\ exchange.response.meta.minimumLatencyHours >= 24
        ELSE exchange.response.headers.minimumLatencyHours = Decimal(24)

-----------------------------------------------------------------------------
(* Properties of the useAlerts hook *)

\* C26: an instance that has written to localStorage had finished its load
\* before (isLoaded is true and the load effect has run), and its first write
\* was the list it loaded.
C26_SaveAfterLoad ==
    \A t \in Tabs :
        tabs[t].saves > 0 =>
            /\ tabs[t].isLoaded
            /\ tabs[t].loadedRef
            /\ tabs[t].firstSaved = JsonStringify(tabs[t].loaded)

\* An instance mounted over a stored alert has loaded it and made its first
\* write, and the stored alert is still in storage.
C26_Witness ==
    \E t \in Tabs :
        /\ tabs[t].saves = 1
        /\ tabs[t].loaded # <<>>
        /\ storage = saveAlerts(tabs[t].loaded)

\* C30 (as stated): an alert that one instance created and that is in storage
\* stays in storage when the other instance writes after a callback called
\* later than the alert was stored, unless the other instance's deleteAlert
\* was given the alert's id.
C30_Original ==
    [][ \A t, u \in Tabs :
            (t # u /\ storage' # storage /\ tabs'[u] # tabs[u] /\ tabs[u].saves >= 1) =>
                \A id \in tabs[t].created \cap StoredIds(storage) \cap tabs[u].storedAtCall :
                    id \in StoredIds(storage') \/ id \in tabs'[u].deleted ]_vars

====
